---- MODULE Spec2Model ----
(***************************************************************************)
(* Model of the retrieval core of vanilla-rag-architecture:                *)
(*   tools/vector_store_tool.py   FaissVectorStore, ChromaVectorStore,     *)
(*                                VectorStoreTool                          *)
(*   tools/embedding_tool.py      EmbeddingTool (lazy model, dimension)    *)
(*   services/rag_service.py      RAGService (ingest, query, reset)        *)
(*   routes/rag.py                the HTTP handlers, one service each      *)
(*                                                                         *)
(* Python lists are sequences; Python's 0-based position p is position     *)
(* p+1 here.  Floating point scores are fixed-point integers: a            *)
(* normalised vector has length Unit, a score is scaled by Unit*Unit.      *)
(* uuid4() is a draw from a counter (ids never repeat).                    *)
(*                                                                         *)
(* Specifications:                                                         *)
(*   SpecTool    calls made directly on one VectorStoreTool handle         *)
(*   SpecOrch    calls on one long-lived RAGService instance               *)
(*   SpecRoutes  HTTP requests, each handler with its own RAGService,      *)
(*               interleaved where a handler awaits a remote model         *)
(***************************************************************************)
EXTENDS Integers, Sequences, FiniteSets, TLC

\* ------------------------------------------------------------------ bounds
MaxIds   == 2      \* uuid4() draws for index records in one behaviour
MaxBatch == 2      \* longest texts list handed to one add
MaxTopK  == 2      \* largest top_k handed to search
MaxOver  == 2      \* how far the cited texts go below and above the display limit
MaxDocs  == 2      \* uuid4() draws for doc_id (ingest calls) in one behaviour

\* --------------------------------------------------------- program constants
top_k_retrieve == 10
top_k_rerank   == 3
DefaultDim     == 384
chunk_size     == 500
chunk_overlap  == 100
Unit           == 5

\* ------------------------------------------------------------------ helpers
Min(a, b) == IF a <= b THEN a ELSE b

Range(s) == {s[i] : i \in 1..Len(s)}

SeqsUpTo(S, n) == UNION {[1..m -> S] : m \in 0..n}

\* F applied to the value of v (v is evaluated once)
Let(v, F(_)) == CHOOSE r \in {F(x) : x \in {v}} : TRUE

\* np.linalg.norm on the integer vectors of this model (all have an exact norm)
Norm(v) == CHOOSE r \in 0..(v[1] + v[2]) : r * r = v[1] * v[1] + v[2] * v[2]

Dot(a, b) == a[1] * b[1] + a[2] * b[2]

\* add: norms[norms == 0] = 1; normalized = embeddings_array / norms
NormalizeStored(v) ==
    LET n == IF Norm(v) = 0 THEN 1 ELSE Norm(v)
    IN  <<(v[1] * Unit) \div n, (v[2] * Unit) \div n>>

\* search: if norm > 0: query_array = query_array / norm
NormalizeQuery(q) ==
    IF Norm(q) > 0
    THEN <<(q[1] * Unit) \div Norm(q), (q[2] * Unit) \div Norm(q)>>
    ELSE q

\* ------------------------------------------------------------------- inputs
\* a metadata value with its Python type: str, int, or a list (a value Chroma
\* does not accept)
MStr(s)  == [t |-> "str",  s |-> s, n |-> 0]
MInt(n)  == [t |-> "int",  s |-> "", n |-> n]
MList(s) == [t |-> "list", s |-> s, n |-> 0]

\* the metadata dict ingest_document builds for one chunk
Meta(d, f, i, n) ==
    [doc_id |-> MStr(d), filename |-> MStr(f), chunk_index |-> MInt(i), chunk_total |-> MInt(n)]

\* a text: the characters lo .. hi-1 of the source text named src
Txt(src, lo, hi) == [src |-> src, lo |-> lo, hi |-> hi]

TextLen(t) == t.hi - t.lo

\* the (text, embedding, metadata) triples callers hand to add
Items ==
    { [text |-> Txt("alpha", 0, 5), emb |-> <<3, 4>>, meta |-> Meta("d1", "a.txt", 0, 1)],
      [text |-> Txt("beta", 0, 4),  emb |-> <<2, 0>>, meta |-> Meta("d2", "b.png", 0, 1)],
      [text |-> Txt("gamma", 0, 5), emb |-> <<0, 0>>,
       meta |-> [doc_id |-> MStr("d3"), tags |-> MList("x")]] }

Batches == SeqsUpTo(Items, MaxBatch)

QueryEmbeddings == { <<1, 0>>, <<0, 2>>, <<0, 0>> }

\* the dimension the embedding model reports (length of its vectors)
ModelDim == Len(<<3, 4>>)


\* settings.vector_db_path (its configured default)
VectorDbPath == "/app/data/vector_db"

\* --------------------------------------------------- the snapshot directory
\* <index_path>/faiss.index and <index_path>/data.pkl: absent, unreadable
\* ("corrupt": a partial write) or holding what _save wrote
AbsentIndex  == [st |-> "absent",  d |-> 0, vecs |-> << >>]
CorruptIndex == [st |-> "corrupt", d |-> 0, vecs |-> << >>]
AbsentData   == [st |-> "absent",  texts |-> << >>, metadata |-> << >>, ids |-> << >>]
CorruptData  == [st |-> "corrupt", texts |-> << >>, metadata |-> << >>, ids |-> << >>]

EmptyDisk == [dir |-> FALSE, index_file |-> AbsentIndex, data_file |-> AbsentData]

\* where a write of _save can raise: nowhere, at mkdir, inside write_index,
\* at open(data_file, "wb"), inside pickle.dump
SaveFaults == {"none", "mkdir", "write_index", "open_data", "dump_data"}

\* ----------------------------------------------------------- FaissVectorStore
\* faiss.IndexFlatIP(dimension)
IndexFlatIP(dimension) == [d |-> dimension, vecs |-> << >>]

NoStore ==
    [kind |-> "none", dimension |-> 0, index_path |-> "", index |-> IndexFlatIP(0),
     texts |-> << >>, metadata |-> << >>, ids |-> << >>]

\* the outcome of one store call: the store and the storage after it, whether
\* it raised (and what), and what it returned
Eff(store, dsk, coll, raised, ids, results) ==
    [store |-> store, disk |-> dsk, coll |-> coll, raised |-> raised,
     ids |-> ids, results |-> results]

\* mutant of FaissLoad: the side tables are not read back
FaissLoad_IndexOnly(store, dsk) ==
    IF store.index_path # "" /\ dsk.index_file.st = "ok" /\ dsk.data_file.st # "absent"
    THEN [store EXCEPT !.index = [d |-> dsk.index_file.d, vecs |-> dsk.index_file.vecs]]
    ELSE store

\* FaissVectorStore._load
FaissLoad(store, dsk) ==
    IF store.index_path = "" THEN store
    ELSE IF dsk.index_file.st # "absent" /\ dsk.data_file.st # "absent"
    THEN IF dsk.index_file.st = "corrupt"
         THEN store                      \* read_index raised: caught, logged
         ELSE LET s1 == [store EXCEPT !.index = [d    |-> dsk.index_file.d,
                                                  vecs |-> dsk.index_file.vecs]]
              IN  IF dsk.data_file.st = "corrupt"
                  THEN s1                \* pickle.load raised: caught, logged
                  ELSE [s1 EXCEPT !.texts    = dsk.data_file.texts,
                                  !.metadata = dsk.data_file.metadata,
                                  !.ids      = dsk.data_file.ids]
    ELSE store

\* FaissVectorStore.__init__ (faiss importable)
FaissInit(dimension, index_path, dsk) ==
    LET fresh == [kind |-> "faiss", dimension |-> dimension, index_path |-> index_path,
                  index |-> IndexFlatIP(dimension),
                  texts |-> << >>, metadata |-> << >>, ids |-> << >>]
    IN  IF index_path # "" /\ dsk.dir THEN FaissLoad(fresh, dsk) ELSE fresh

\* FaissVectorStore._save: the storage after it, and whether it raised
FaissSave(store, dsk, fault) ==
    LET newIndex == [st |-> "ok", d |-> store.index.d, vecs |-> store.index.vecs]
        newData  == [st |-> "ok", texts |-> store.texts, metadata |-> store.metadata,
                     ids |-> store.ids]
    IN  IF store.index_path = "" THEN [disk |-> dsk, raised |-> FALSE]
        ELSE CASE fault = "none" ->
                    [disk |-> [dir |-> TRUE, index_file |-> newIndex, data_file |-> newData],
                     raised |-> FALSE]
               [] fault = "mkdir" ->
                    [disk |-> dsk, raised |-> TRUE]
               [] fault = "write_index" ->
                    [disk |-> [dsk EXCEPT !.dir = TRUE, !.index_file = CorruptIndex],
                     raised |-> TRUE]
               [] fault = "open_data" ->
                    [disk |-> [dsk EXCEPT !.dir = TRUE, !.index_file = newIndex],
                     raised |-> TRUE]
               [] fault = "dump_data" ->
                    [disk |-> [dsk EXCEPT !.dir = TRUE, !.index_file = newIndex,
                                          !.data_file = CorruptData],
                     raised |-> TRUE]

SaveRaised(r) == IF r.raised THEN "save_failed" ELSE "none"

\* mutant of FaissAdd: new records are inserted in front of the existing ones
FaissAdd_Prepend(store, dsk, coll, batch, newIds, fault) ==
    IF batch = << >> THEN Eff(store, dsk, coll, "none", << >>, << >>)
    ELSE LET s1 == [store EXCEPT
                      !.index.vecs = [i \in 1..Len(batch) |-> NormalizeStored(batch[i].emb)] \o @,
                      !.texts      = [i \in 1..Len(batch) |-> batch[i].text] \o @,
                      !.metadata   = [i \in 1..Len(batch) |-> batch[i].meta] \o @,
                      !.ids        = newIds \o @]
             sv == FaissSave(s1, dsk, fault)
         IN  Eff(s1, sv.disk, coll, SaveRaised(sv), IF sv.raised THEN << >> ELSE newIds, << >>)

\* FaissVectorStore.add; newIds are the uuid4() draws, one per text
FaissAdd(store, dsk, coll, batch, newIds, fault) ==
    IF batch = << >> THEN Eff(store, dsk, coll, "none", << >>, << >>)
    ELSE LET s1 == [store EXCEPT
                      !.index.vecs = @ \o [i \in 1..Len(batch) |-> NormalizeStored(batch[i].emb)],
                      !.texts      = @ \o [i \in 1..Len(batch) |-> batch[i].text],
                      !.metadata   = @ \o [i \in 1..Len(batch) |-> batch[i].meta],
                      !.ids        = @ \o newIds]
             sv == FaissSave(s1, dsk, fault)
         IN  Eff(s1, sv.disk, coll, SaveRaised(sv), IF sv.raised THEN << >> ELSE newIds, << >>)

\* index.search(query, k) of a flat inner-product index: the k best positions,
\* best first (equal scores: the earlier vector first)
BestFirst(vecs, q, S, k) ==
    LET Before(i, j) == \/ Dot(vecs[i], q) > Dot(vecs[j], q)
                        \/ Dot(vecs[i], q) = Dot(vecs[j], q) /\ i < j
        Rank(i)      == 1 + Cardinality({j \in S : Before(j, i)})
    IN  [p \in 1..Min(k, Cardinality(S)) |->
           LET best == CHOOSE i \in S : Rank(i) = p
           IN  [pos |-> best, score |-> Dot(vecs[best], q)]]

IndexSearch(index, q, k) == BestFirst(index.vecs, q, 1..Len(index.vecs), k)

\* the hits that pass `idx >= 0 and idx < len(self._texts)`
SelectHits(hits, n) == SelectSeq(hits, LAMBDA h : h.pos <= n)

\* FaissVectorStore.search
FaissSearch(store, q, top_k) ==
    IF Len(store.index.vecs) = 0 THEN << >>
    ELSE LET hits == IndexSearch(store.index, NormalizeQuery(q),
                                 Min(top_k, Len(store.index.vecs)))
             kept == SelectHits(hits, Len(store.texts))
         IN  [i \in 1..Len(kept) |->
                [id       |-> store.ids[kept[i].pos],
                 text     |-> store.texts[kept[i].pos],
                 metadata |-> store.metadata[kept[i].pos],
                 score    |-> kept[i].score]]

\* mutant of FaissDeleteAll: an empty snapshot is written but the instance
\* keeps its index and tables
FaissDeleteAll_KeepsMemory(store, dsk, coll, fault) ==
    LET s1 == [store EXCEPT !.index = IndexFlatIP(store.dimension),
                            !.texts = << >>, !.metadata = << >>, !.ids = << >>]
        sv == FaissSave(s1, dsk, fault)
    IN  Eff(store, sv.disk, coll, SaveRaised(sv), << >>, << >>)

\* mutant of FaissDeleteAll: the new index is built with the default dimension
FaissDeleteAll_DefaultDim(store, dsk, coll, fault) ==
    LET s1 == [store EXCEPT !.index = IndexFlatIP(DefaultDim),
                            !.texts = << >>, !.metadata = << >>, !.ids = << >>]
        sv == FaissSave(s1, dsk, fault)
    IN  Eff(s1, sv.disk, coll, SaveRaised(sv), << >>, << >>)

\* FaissVectorStore.delete_all
FaissDeleteAll(store, dsk, coll, fault) ==
    LET s1 == [store EXCEPT !.index = IndexFlatIP(store.dimension),
                            !.texts = << >>, !.metadata = << >>, !.ids = << >>]
        sv == FaissSave(s1, dsk, fault)
    IN  Eff(s1, sv.disk, coll, SaveRaised(sv), << >>, << >>)

\* FaissVectorStore.save
FaissExplicitSave(store, dsk, coll, fault) ==
    LET sv == FaissSave(store, dsk, fault)
    IN  Eff(store, sv.disk, coll, SaveRaised(sv), << >>, << >>)


\* ---------------------------------------------------------- ChromaVectorStore
\* the persistent collection "documents": a sequence of records
\* [id, text, emb, meta], shared by every client opened on the same path
ChromaStore ==
    [kind |-> "chroma", dimension |-> 0, index_path |-> "", index |-> IndexFlatIP(0),
     texts |-> << >>, metadata |-> << >>, ids |-> << >>]

\* str(v) of a list value
PyStr(v) == "['" \o v.s \o "']"

\* mutant of CleanMeta: the values are handed over as they came
CleanMeta_AsGiven(meta) == meta

\* ChromaVectorStore.add: the clean_metadata loop
CleanMeta(meta) ==
    [k \in DOMAIN meta |->
        IF meta[k].t \in {"str", "int", "float", "bool"} THEN meta[k]
        ELSE MStr(PyStr(meta[k]))]

\* mutant of ChromaAdd: only the first record of a batch reaches the collection
ChromaAdd_FirstOnly(store, dsk, coll, batch, newIds) ==
    IF batch = << >> THEN Eff(store, dsk, coll, "none", << >>, << >>)
    ELSE Eff(store, dsk,
             coll \o <<[id |-> newIds[1], text |-> batch[1].text,
                        emb |-> batch[1].emb, meta |-> CleanMeta(batch[1].meta)]>>,
             "none", newIds, << >>)

\* ChromaVectorStore.add
ChromaAdd(store, dsk, coll, batch, newIds) ==
    IF batch = << >> THEN Eff(store, dsk, coll, "none", << >>, << >>)
    ELSE Eff(store, dsk,
             coll \o [i \in 1..Len(batch) |->
                        [id |-> newIds[i], text |-> batch[i].text,
                         emb |-> batch[i].emb, meta |-> CleanMeta(batch[i].meta)]],
             "none", newIds, << >>)

\* collection.query(n_results): the nearest records by cosine distance,
\* nearest first, never more than the collection holds
ChromaQuery(coll, q, n_results) ==
    LET hits == BestFirst([i \in 1..Len(coll) |-> NormalizeStored(coll[i].emb)],
                          NormalizeStored(q), 1..Len(coll), Min(n_results, Len(coll)))
    IN  [i \in 1..Len(hits) |->
           [pos |-> hits[i].pos, distance |-> Unit * Unit - hits[i].score]]

\* ChromaVectorStore.search
ChromaSearch(coll, q, top_k) ==
    LET res == ChromaQuery(coll, q, top_k)
    IN  [i \in 1..Len(res) |->
           [id       |-> coll[res[i].pos].id,
            text     |-> coll[res[i].pos].text,
            metadata |-> coll[res[i].pos].meta,
            score    |-> Unit * Unit - res[i].distance]]

\* ChromaVectorStore.delete_all
ChromaDeleteAll(store, dsk, coll) ==
    LET all_ids == {coll[i].id : i \in 1..Len(coll)}
    IN  Eff(store, dsk,
            IF all_ids # {} THEN SelectSeq(coll, LAMBDA r : r.id \notin all_ids) ELSE coll,
            "none", << >>, << >>)

\* ------------------------------------------------------------ VectorStoreTool
\* VectorStoreTool.__init__
NewTool == [store |-> NoStore, dimension |-> 0]

\* mutant of ToolInitialize: a failed construction of the backend is swallowed
ToolInitialize_Silent(tool, dimension, store_type, installed, dsk) ==
    LET t1 == [tool EXCEPT !.dimension = dimension]
    IN  IF store_type = "faiss" /\ installed
        THEN [tool |-> [t1 EXCEPT !.store = FaissInit(dimension, VectorDbPath, dsk)],
              raised |-> "none"]
        ELSE IF store_type = "chroma" /\ installed
        THEN [tool |-> [t1 EXCEPT !.store = ChromaStore], raised |-> "none"]
        ELSE [tool |-> t1, raised |-> "none"]

\* VectorStoreTool.initialize: the tool after it and whether it raised.
\* installed: the backend's library can be imported
ToolInitialize(tool, dimension, store_type, installed, dsk) ==
    LET t1 == [tool EXCEPT !.dimension = dimension]
    IN  IF store_type = "faiss"
        THEN IF installed
             THEN [tool |-> [t1 EXCEPT !.store = FaissInit(dimension, VectorDbPath, dsk)],
                   raised |-> "none"]
             ELSE [tool |-> t1, raised |-> "vector_store_error"]
        ELSE IF store_type = "chroma"
        THEN IF installed
             THEN [tool |-> [t1 EXCEPT !.store = ChromaStore], raised |-> "none"]
             ELSE [tool |-> t1, raised |-> "vector_store_error"]
        ELSE [tool |-> t1, raised |-> "vector_store_error"]

\* mutant of NotInitialized: the check reads _dimension instead of _store
NotInitialized_ByDimension(tool) == tool.dimension = 0

\* VectorStoreTool.ensure_initialized
NotInitialized(tool) == tool.store.kind = "none"

\* VectorStoreTool.add
ToolAdd(tool, dsk, coll, batch, newIds, fault) ==
    IF NotInitialized(tool) THEN Eff(tool.store, dsk, coll, "not_initialized", << >>, << >>)
    ELSE IF tool.store.kind = "faiss"
         THEN FaissAdd(tool.store, dsk, coll, batch, newIds, fault)
         ELSE ChromaAdd(tool.store, dsk, coll, batch, newIds)

\* VectorStoreTool.search
ToolSearch(tool, dsk, coll, q, top_k) ==
    IF NotInitialized(tool) THEN Eff(tool.store, dsk, coll, "not_initialized", << >>, << >>)
    ELSE Eff(tool.store, dsk, coll, "none", << >>,
             IF tool.store.kind = "faiss"
             THEN FaissSearch(tool.store, q, top_k)
             ELSE ChromaSearch(coll, q, top_k))

\* VectorStoreTool.delete_all
ToolDeleteAll(tool, dsk, coll, fault) ==
    IF NotInitialized(tool) THEN Eff(tool.store, dsk, coll, "not_initialized", << >>, << >>)
    ELSE IF tool.store.kind = "faiss"
         THEN FaissDeleteAll(tool.store, dsk, coll, fault)
         ELSE ChromaDeleteAll(tool.store, dsk, coll)

\* VectorStoreTool.save
ToolSave(tool, dsk, coll, fault) ==
    IF NotInitialized(tool) THEN Eff(tool.store, dsk, coll, "not_initialized", << >>, << >>)
    ELSE IF tool.store.kind = "faiss"
         THEN FaissExplicitSave(tool.store, dsk, coll, fault)
         ELSE Eff(tool.store, dsk, coll, "none", << >>, << >>)

\* mutant of NewIds: ids are the positions in the batch
NewIds_FromOne(next, n) == [i \in 1..n |-> i]

\* [str(uuid.uuid4()) for _ in texts]: n fresh draws, starting at draw `next`
NewIds(next, n) == [i \in 1..n |-> next + i - 1]


\* the ids an add draws: none when it returns before the uuid4() line
Drawn(tool, batch) == IF NotInitialized(tool) \/ batch = << >> THEN 0 ELSE Len(batch)

\* ============================================================== EmbeddingTool
\* EmbeddingTool.__init__: _model = None, _dimension = None (0 stands for None)
NewEmbedder == [loaded |-> FALSE, dimension |-> 0]

\* the environments in which SentenceTransformer(...) raises: it fails whenever
\* it is called ("load_model"), or its first call fails and a second one would
\* succeed ("load_model_once")
LoadFails(fail) == fail \in {"load_model", "load_model_once"}

\* mutant of EmbLoadModel: the model is constructed on every call
EmbLoadModel_Reloads(emb, fail) ==
    IF LoadFails(fail) THEN [emb |-> emb, raised |-> TRUE]
    ELSE [emb |-> [loaded |-> TRUE, dimension |-> ModelDim], raised |-> FALSE]

\* EmbeddingTool._load_model: the tool after it, and whether it raised
\* EmbeddingError.  fail names the place (if any) where this call's
\* environment fails
EmbLoadModel(emb, fail) ==
    IF emb.loaded THEN [emb |-> emb, raised |-> FALSE]
    ELSE IF LoadFails(fail) THEN [emb |-> emb, raised |-> TRUE]
    ELSE [emb |-> [loaded |-> TRUE, dimension |-> ModelDim], raised |-> FALSE]

\* EmbeddingTool.dimension
EmbDimension(emb, fail) ==
    LET r == IF emb.dimension = 0 THEN EmbLoadModel(emb, fail)
             ELSE [emb |-> emb, raised |-> FALSE]
    IN  [emb |-> r.emb, raised |-> r.raised,
         value |-> IF r.emb.dimension = 0 THEN DefaultDim ELSE r.emb.dimension]

\* model.encode: the embedding model's vector for one text
Encode(t) ==
    LET v == CASE t.src = "a.txt" -> <<3, 4>>
               [] t.src = "b.png" -> <<2, 0>>
               [] t.src = "c.txt" -> <<4, 3>>
               [] t.src = "q1"    -> <<1, 0>>
               [] OTHER           -> <<0, 2>>
    IN  IF t.src = "d.txt"
        THEN CASE t.lo = 0   -> <<3, 4>>
               [] t.lo = 400 -> <<4, 3>>
               [] t.lo = 800 -> <<2, 0>>
               [] OTHER      -> <<0, 2>>
        ELSE IF t.lo = 0 THEN v ELSE <<v[2], v[1]>>

\* mutant of Embed: the model is loaded before the texts are looked at
Embed_LoadsFirst(emb, texts, fail) ==
    LET r == EmbLoadModel(emb, fail)
    IN  IF r.raised
        THEN [emb |-> r.emb, raised |-> "Failed to load embedding model", vectors |-> << >>]
        ELSE IF texts = << >> THEN [emb |-> r.emb, raised |-> "none", vectors |-> << >>]
        ELSE IF fail = "embed"
        THEN [emb |-> r.emb, raised |-> "Failed to generate embeddings", vectors |-> << >>]
        ELSE IF fail = "no_output"
        THEN [emb |-> r.emb, raised |-> "none", vectors |-> << >>]
        ELSE [emb |-> r.emb, raised |-> "none",
              vectors |-> [i \in 1..Len(texts) |-> Encode(texts[i])]]

\* EmbeddingTool.embed
Embed(emb, texts, fail) ==
    IF texts = << >> THEN [emb |-> emb, raised |-> "none", vectors |-> << >>]
    ELSE LET r == EmbLoadModel(emb, fail)
         IN  IF r.raised
             THEN [emb |-> r.emb, raised |-> "Failed to load embedding model", vectors |-> << >>]
             ELSE IF fail = "embed"
             THEN [emb |-> r.emb, raised |-> "Failed to generate embeddings", vectors |-> << >>]
             ELSE IF fail = "no_output"
             THEN [emb |-> r.emb, raised |-> "none", vectors |-> << >>]
             ELSE [emb |-> r.emb, raised |-> "none",
                   vectors |-> [i \in 1..Len(texts) |-> Encode(texts[i])]]

\* EmbeddingTool.embed_query
EmbedQuery(emb, text, fail) ==
    LET r == Embed(emb, <<text>>, fail)
    IN  [emb |-> r.emb, raised |-> r.raised,
         vector |-> IF r.vectors # << >> THEN r.vectors[1] ELSE << >>]

\* ============================================================ TextSplitterTool
\* a text of whitespace only
Whitespace == "   "

\* not text or not text.strip()
IsBlank(t) == TextLen(t) = 0 \/ t.src = Whitespace

\* RecursiveCharacterTextSplitter on a text with none of the separators
\* "\n\n", "\n", ". ", " ": cuts of chunk_size characters, each chunk starting
\* chunk_overlap characters before the end of the one before it
RECURSIVE HardCut(_, _, _)
HardCut(src, lo, hi) ==
    IF hi - lo <= chunk_size THEN <<Txt(src, lo, hi)>>
    ELSE <<Txt(src, lo, lo + chunk_size)>>
         \o HardCut(src, lo + chunk_size - chunk_overlap, hi)

\* the offsets at which a paragraph break "\n\n" starts in a source text:
\* p.txt is four paragraphs of 299, 299, 298 and 298 characters; the other
\* source texts hold none of the separators
Breaks(src) == IF src = "p.txt" THEN {299, 600, 900} ELSE {}

\* the paragraph breaks inside a text
Cuts(t) == {b \in Breaks(t.src) : t.lo < b /\ b < t.hi}

\* text.split on "\n\n" with keep_separator: every piece but the first starts
\* with the break before it
Pieces(t) ==
    LET Nth(p) == CHOOSE c \in Cuts(t) : Cardinality({d \in Cuts(t) : d < c}) = p - 1
        n      == Cardinality(Cuts(t))
    IN  [p \in 1..(n + 1) |->
           Txt(t.src, IF p = 1 THEN t.lo ELSE Nth(p - 1), IF p = n + 1 THEN t.hi ELSE Nth(p))]

\* _join_docs: the pieces joined, with the whitespace at its ends stripped
JoinDocs(pieces, a, b) ==
    LET lo == pieces[a].lo
    IN  Txt(pieces[a].src, IF lo \in Breaks(pieces[a].src) THEN lo + 2 ELSE lo, pieces[b].hi)

\* _merge_splits (separator ""): pieces[a..b-1] is current_doc, docs the chunks
\* made so far; piece b is taken next.  A chunk is closed when the next piece
\* does not fit, and the pieces kept for the overlap are those of at most
\* chunk_overlap characters that leave room for the next piece
RECURSIVE MergeSplits(_, _, _, _)
MergeSplits(pieces, a, b, docs) ==
    LET Total(x) == IF x < b THEN pieces[b - 1].hi - pieces[x].lo ELSE 0
        len      == TextLen(pieces[b])
        Pops(x)  == Total(x) > chunk_overlap \/ (Total(x) + len > chunk_size /\ Total(x) > 0)
        kept     == CHOOSE x \in a..b : ~Pops(x) /\ \A y \in a..(x - 1) : Pops(y)
    IN  IF b > Len(pieces)
        THEN IF a < b THEN Append(docs, JoinDocs(pieces, a, b - 1)) ELSE docs
        ELSE IF Total(a) + len > chunk_size
        THEN IF a < b
             THEN MergeSplits(pieces, kept, b + 1, Append(docs, JoinDocs(pieces, a, b - 1)))
             ELSE MergeSplits(pieces, a, b + 1, docs)
        ELSE MergeSplits(pieces, a, b + 1, docs)

\* mutant of SplitText: the text is cut without regard to its separators
SplitText_HardCutOnly(t) == HardCut(t.src, t.lo, t.hi)

\* RecursiveCharacterTextSplitter.split_text: the first separator of the list
\* that the text holds is used; the pieces here are shorter than chunk_size
SplitText(t) ==
    IF Cuts(t) = {} THEN HardCut(t.src, t.lo, t.hi)
    ELSE MergeSplits(Pieces(t), 1, 1, << >>)

\* mutant of Split: enumerate(chunks, 1)
Split_OneBased(text, metadata) ==
    IF IsBlank(text) THEN << >>
    ELSE LET chunks == SplitText(text)
         IN  [i \in 1..Len(chunks) |->
                [content  |-> chunks[i],
                 metadata |-> [k \in DOMAIN metadata \cup {"chunk_index", "chunk_total"} |->
                                 IF k = "chunk_index" THEN MInt(i)
                                 ELSE IF k = "chunk_total" THEN MInt(Len(chunks))
                                 ELSE metadata[k]]]]

\* TextSplitterTool.split
Split(text, metadata) ==
    IF IsBlank(text) THEN << >>
    ELSE LET chunks == SplitText(text)
         IN  [i \in 1..Len(chunks) |->
                [content  |-> chunks[i],
                 metadata |-> [k \in DOMAIN metadata \cup {"chunk_index", "chunk_total"} |->
                                 IF k = "chunk_index" THEN MInt(i - 1)
                                 ELSE IF k = "chunk_total" THEN MInt(Len(chunks))
                                 ELSE metadata[k]]]]

\* ================================================================ RerankerTool
\* model.predict: the cross-encoder's score of one (query, document) pair
CrossScore(q, doc) == Dot(Encode(q), Encode(doc)) + Dot(Encode(doc), <<0, 1>>)

\* mutant of SortDesc: the sort without reverse=True
SortDesc_Ascending(scores, S) ==
    LET Before(i, j) == scores[i] < scores[j] \/ (scores[i] = scores[j] /\ i < j)
        Rank(i)      == 1 + Cardinality({j \in S : Before(j, i)})
    IN  [p \in 1..Cardinality(S) |->
           LET best == CHOOSE i \in S : Rank(i) = p
           IN  [idx |-> best - 1, score |-> scores[best]]]

\* indexed_scores.sort(key=score, reverse=True): a stable sort, so equal
\* scores keep their original order.  Positions are 0-based as in the code
SortDesc(scores, S) ==
    LET Before(i, j) == scores[i] > scores[j] \/ (scores[i] = scores[j] /\ i < j)
        Rank(i)      == 1 + Cardinality({j \in S : Before(j, i)})
    IN  [p \in 1..Cardinality(S) |->
           LET best == CHOOSE i \in S : Rank(i) = p
           IN  [idx |-> best - 1, score |-> scores[best]]]

\* seq[:k]
PyPrefix(seq, k) ==
    IF k >= 0 THEN SubSeq(seq, 1, Min(k, Len(seq)))
    ELSE SubSeq(seq, 1, IF Len(seq) + k > 0 THEN Len(seq) + k ELSE 0)

\* an Optional[int]: None or an int
None == [some |-> FALSE, v |-> 0]

Some(v) == [some |-> TRUE, v |-> v]

\* RerankerTool.rerank: whether the model is loaded after it, whether it
\* raised RerankerError, and the (index, score) pairs
Rerank(loaded, query, documents, top_k, fail) ==
    LET k == IF top_k.some THEN top_k.v ELSE top_k_rerank IN
    IF documents = << >> THEN [loaded |-> loaded, raised |-> "none", pairs |-> << >>]
    ELSE IF ~loaded /\ fail \in {"load_reranker", "load_reranker_once"}
    THEN [loaded |-> FALSE, raised |-> "Failed to load reranker model", pairs |-> << >>]
    ELSE IF fail = "rerank"
    THEN [loaded |-> TRUE, raised |-> "Failed to rerank documents", pairs |-> << >>]
    ELSE [loaded |-> TRUE, raised |-> "none",
          pairs |-> Let([i \in 1..Len(documents) |-> CrossScore(query, documents[i])],
                        LAMBDA scores : PyPrefix(SortDesc(scores, 1..Len(documents)), k))]


\* ================================================================== RAGService
\* the uploads: filename, document type and the text extraction yields
NoFile == [filename |-> "", type |-> "none", text |-> Txt("", 0, 0)]

Files ==
    { [filename |-> "a.txt", type |-> "text",  text |-> Txt("a.txt", 0, 300)],
      [filename |-> "b.png", type |-> "image", text |-> Txt("b.png", 0, 300)],
      [filename |-> "c.txt", type |-> "text",  text |-> Txt("c.txt", 0, 700)],
      [filename |-> "w.txt", type |-> "text",  text |-> Txt(Whitespace, 0, 3)],
      [filename |-> "x.exe", type |-> "unknown", text |-> Txt("x.exe", 0, 300)] }

Queries == { Txt("q1", 0, 20) }

\* str(uuid.uuid4()) for a document
DocId(n) == "doc" \o ToString(n)

NoReq ==
    [op |-> "none", file |-> NoFile, doc_id |-> "", query |-> Txt("", 0, 0),
     top_k |-> None, initial |-> << >>, reranked |-> << >>, context |-> << >>,
     stages |-> << >>]

\* the outcome of the last call on a service: status is "success" or "error"
\* (a response was returned) or "raised" (an exception left the call); failed
\* names the stage that failed; used_store tells whether the call reached an
\* operation of the vector store; http is the status code of the HTTP
\* response when the call came through a route (0 otherwise)
NoResp ==
    [op |-> "none", status |-> "none", message |-> "", failed |-> "none",
     doc_id |-> "", filename |-> "", chunk_count |-> 0,
     answer |-> "", sources |-> << >>, used_store |-> FALSE, http |-> 0,
     stages |-> << >>, retrieved |-> 0]

\* RAGService.__init__
NewService ==
    [initialized |-> FALSE, tool |-> NewTool, emb |-> NewEmbedder, rr_loaded |-> FALSE,
     inits |-> 0, pc |-> "idle", req |-> NoReq, resp |-> NoResp]

\* mutant of EnsureInitialized: _initialized is never set
EnsureInitialized_NoFlag(sv, fail, store_type, inst, dsk) ==
    LET d == EmbDimension(sv.emb, fail)
        r == ToolInitialize(sv.tool, d.value, store_type, inst, dsk)
    IN  IF d.raised
        THEN [svc |-> sv, raised |-> "Failed to load embedding model"]
        ELSE IF r.raised # "none"
        THEN [svc |-> [sv EXCEPT !.emb = d.emb, !.tool = r.tool],
              raised |-> "Vector store initialization failed"]
        ELSE [svc |-> [sv EXCEPT !.emb = d.emb, !.tool = r.tool, !.inits = @ + 1],
              raised |-> "none"]

\* RAGService._ensure_initialized: the service after it and what it raised.
\* inits counts the initialize calls of this instance that returned
EnsureInitialized(sv, fail, store_type, inst, dsk) ==
    IF sv.initialized THEN [svc |-> sv, raised |-> "none"]
    ELSE LET d == EmbDimension(sv.emb, fail)
             r == ToolInitialize(sv.tool, d.value, store_type, inst, dsk)
         IN  IF d.raised
             THEN [svc |-> sv, raised |-> "Failed to load embedding model"]
             ELSE IF r.raised # "none"
             THEN [svc |-> [sv EXCEPT !.emb = d.emb, !.tool = r.tool],
                   raised |-> "Vector store initialization failed"]
             ELSE [svc |-> [sv EXCEPT !.emb = d.emb, !.tool = r.tool,
                                      !.initialized = TRUE, !.inits = @ + 1],
                   raised |-> "none"]

\* what one service call leaves behind: the service, the storage, the uuid4
\* draws it made for index records, and the doc_id it ingested (if any)
Out(sv, dsk, coll, drawn, done) ==
    [svc |-> sv, disk |-> dsk, coll |-> coll, drawn |-> drawn, done |-> done]

\* the failing write (if any) of a call whose environment fails at `fail`
SaveFault(fail) == IF fail \in SaveFaults THEN fail ELSE "none"

Finish(sv, resp) == [sv EXCEPT !.pc = "idle", !.req = NoReq, !.resp = resp]

IngestResp(doc_id, f, n, status, message, failed, used) ==
    [NoResp EXCEPT !.op = "ingest", !.status = status, !.message = message,
                   !.failed = failed, !.doc_id = doc_id, !.filename = f.filename,
                   !.chunk_count = n, !.used_store = used]

\* mutant of IngestFailed: the handler lets the exception go
IngestFailed_Reraise(doc_id, f, message, failed, used) ==
    IngestResp(doc_id, f, 0, "raised", message, failed, used)

\* RAGService.ingest_document, lines 125-133: except Exception as e
IngestFailed(doc_id, f, message, failed, used) ==
    IngestResp(doc_id, f, 0, "error", message, failed, used)

\* DocumentService.extract: the error it raises, or "none"
ExtractError(f, fail) ==
    IF f.type \notin {"text", "document", "pdf", "image"} THEN "Unsupported file type"
    ELSE IF fail = "extract" THEN "Failed to extract text"
    ELSE IF IsBlank(f.text) THEN "No text extracted"
    ELSE "none"

\* RAGService.ingest_document, lines 93-123: the chunks are embedded in one
\* batch and added to the index in one call
IngestChunks(sv, f, doc_id, fail, dsk, coll, next, chunks) ==
    LET texts  == [i \in 1..Len(chunks) |-> chunks[i].content]
        em     == Embed(sv.emb, texts, fail)
        sv1    == [sv EXCEPT !.emb = em.emb]
        Add(batch) ==
            LET n   == Drawn(sv.tool, batch)
                e   == ToolAdd(sv.tool, dsk, coll, batch, NewIds(next, n), SaveFault(fail))
                sv2 == [sv1 EXCEPT !.tool.store = e.store]
            IN  IF e.raised # "none"
                THEN Out(Finish(sv2, IngestFailed(doc_id, f, e.raised, "add", TRUE)),
                         e.disk, e.coll, n, "")
                ELSE Out(Finish(sv2, IngestResp(doc_id, f, Len(chunks), "success",
                                                "Successfully ingested", "none", TRUE)),
                         e.disk, e.coll, n, doc_id)
    IN  IF chunks = << >>
        THEN Out(Finish(sv, IngestResp(doc_id, f, 0, "error",
                                       "No chunks generated from document", "chunk", FALSE)),
                 dsk, coll, 0, "")
        ELSE IF em.raised # "none"
        THEN Out(Finish(sv1, IngestFailed(doc_id, f, em.raised, "embed", FALSE)),
                 dsk, coll, 0, "")
        ELSE Let([i \in 1..Len(chunks) |->
                    [text |-> texts[i], emb |-> em.vectors[i],
                     meta |-> [doc_id      |-> MStr(doc_id),
                               filename    |-> MStr(f.filename),
                               chunk_index |-> chunks[i].metadata.chunk_index,
                               chunk_total |-> chunks[i].metadata.chunk_total]]],
                 Add)

\* RAGService.ingest_document, lines 70-133: the try block, from the return
\* of the text extraction on
IngestBody(sv, f, doc_id, fail, dsk, coll, next) ==
    LET xerr == ExtractError(f, fail)
    IN  IF xerr # "none"
        THEN Out(Finish(sv, IngestFailed(doc_id, f, xerr, "extract", FALSE)),
                 dsk, coll, 0, "")
        ELSE Let(Split(f.text, [doc_id |-> MStr(doc_id), filename |-> MStr(f.filename),
                                doc_type |-> MStr(f.type)]),
                 LAMBDA chunks : IngestChunks(sv, f, doc_id, fail, dsk, coll, next, chunks))

\* RAGService.ingest_document, lines 66-72: up to the first await that
\* suspends the call (the image caption request); other documents run on
IngestCall(sv, f, doc_id, fail, store_type, inst, dsk, coll, next) ==
    LET i == EnsureInitialized(sv, fail, store_type, inst, dsk)
    IN  IF i.raised # "none"
        THEN Out(Finish(i.svc, IngestResp("", f, 0, "raised", i.raised, "initialize", FALSE)),
                 dsk, coll, 0, "")
        ELSE IF f.type = "image"
        THEN Out([i.svc EXCEPT !.pc = "extract",
                               !.req = [NoReq EXCEPT !.op = "ingest", !.file = f,
                                                     !.doc_id = doc_id]],
                 dsk, coll, 0, "")
        ELSE IngestBody(i.svc, f, doc_id, fail, dsk, coll, next)

\* RAGService.reset_index
ResetCall(sv, fail, store_type, inst, dsk, coll) ==
    LET i == EnsureInitialized(sv, fail, store_type, inst, dsk)
        e == ToolDeleteAll(i.svc.tool, dsk, coll, SaveFault(fail))
        r == [NoResp EXCEPT !.op = "reset"]
    IN  IF i.raised # "none"
        THEN Out(Finish(i.svc, [r EXCEPT !.status = "raised", !.message = i.raised,
                                         !.failed = "initialize"]),
                 dsk, coll, 0, "")
        ELSE IF e.raised # "none"
        THEN Out(Finish([i.svc EXCEPT !.tool.store = e.store],
                        [r EXCEPT !.status = "raised", !.message = e.raised,
                                  !.failed = "delete_all", !.used_store = TRUE]),
                 e.disk, e.coll, 0, "")
        ELSE Out(Finish([i.svc EXCEPT !.tool.store = e.store],
                        [r EXCEPT !.status = "success",
                                  !.message = "Vector store index cleared",
                                  !.used_store = TRUE]),
                 e.disk, e.coll, 0, "")


\* mutant of Truncate: a text of exactly the display limit is cut too
Truncate_Inclusive(t) ==
    IF TextLen(t) >= 500 THEN [text |-> Txt(t.src, t.lo, t.lo + 500), ellipsis |-> TRUE]
    ELSE [text |-> t, ellipsis |-> FALSE]

\* result["text"][:500] + "..." if len(result["text"]) > 500 else result["text"]
Truncate(t) ==
    IF TextLen(t) > 500 THEN [text |-> Txt(t.src, t.lo, t.lo + 500), ellipsis |-> TRUE]
    ELSE [text |-> t, ellipsis |-> FALSE]

\* mutant of MetaGet: the default is returned for every key
MetaGet_Unknown(meta, key) == MStr("unknown")

\* result["metadata"].get(key, "unknown")
MetaGet(meta, key) == IF key \in DOMAIN meta THEN meta[key] ELSE MStr("unknown")

\* the response of a query; stages lists the tools the call has invoked, in
\* order, and retrieved is the number of candidates the search returned
QueryResp(status, message, failed, answer, sources, used, stages, retrieved) ==
    [NoResp EXCEPT !.op = "query", !.status = status, !.message = message,
                   !.failed = failed, !.answer = answer, !.sources = sources,
                   !.used_store = used, !.stages = stages, !.retrieved = retrieved]

\* the answer returned when nothing was retrieved
NoInformation == "I don't have enough information to answer this question"

\* mutant of NothingRetrieved: the guard is missing
NothingRetrieved_Never(initial_results) == FALSE

\* RAGService.query, line 155: if not initial_results
NothingRetrieved(initial_results) == initial_results = << >>

\* mutant of RerankK: the request's top_k is ignored
RerankK_Configured(top_k) == Some(top_k_rerank)

\* RAGService.query, line 168: request.top_k or self._settings.top_k_rerank
RerankK(top_k) == IF top_k.some /\ top_k.v # 0 THEN top_k ELSE Some(top_k_rerank)

\* mutant of Sources: the sources follow the order of the search, best
\* reranked last
Sources_Reversed(initial_results, reranked) ==
    [j \in 1..Len(reranked) |->
       LET result == initial_results[reranked[Len(reranked) + 1 - j].idx + 1]
       IN  [chunk_id |-> result.id,
            doc_id   |-> MetaGet(result.metadata, "doc_id"),
            filename |-> MetaGet(result.metadata, "filename"),
            content  |-> Truncate(result.text),
            score    |-> reranked[j].score,
            index    |-> j]]

\* mutant of Sources: the i-th source is taken from the i-th search result
Sources_ByPosition(initial_results, reranked) ==
    [j \in 1..Len(reranked) |->
       LET result == initial_results[j]
       IN  [chunk_id |-> result.id,
            doc_id   |-> MetaGet(result.metadata, "doc_id"),
            filename |-> MetaGet(result.metadata, "filename"),
            content  |-> Truncate(result.text),
            score    |-> reranked[j].score,
            index    |-> j]]

\* RAGService.query, lines 200-211: sources
Sources(initial_results, reranked) ==
    [j \in 1..Len(reranked) |->
       LET result == initial_results[reranked[j].idx + 1]
       IN  [chunk_id |-> result.id,
            doc_id   |-> MetaGet(result.metadata, "doc_id"),
            filename |-> MetaGet(result.metadata, "filename"),
            content  |-> Truncate(result.text),
            score    |-> reranked[j].score,
            index    |-> j]]

\* mutant of GenerationFailed: the failure is answered with the canned answer
GenerationFailed_Downgraded(stages, retrieved) ==
    QueryResp("success", "", "generate", NoInformation, << >>, TRUE, stages, retrieved)

\* RAGService.query, lines 195-197: except Exception as e: raise RAGError(...)
GenerationFailed(stages, retrieved) ==
    QueryResp("raised", "Failed to generate answer", "generate", "", << >>, TRUE,
              stages, retrieved)

\* RAGService.query, lines 155-196: from the return of the search to the await
\* of the generation request
QueryRetrieved(sv1, query, top_k, fail, dsk, coll, initial) ==
    LET docs     == [j \in 1..Len(initial) |-> initial[j].text]
        Go(rr)   ==
            LET sv2      == [sv1 EXCEPT !.rr_loaded = rr.loaded]
                selected == [j \in 1..Len(rr.pairs) |-> initial[rr.pairs[j].idx + 1]]
                context  == [j \in 1..Len(selected) |->
                               [document |-> j, text |-> selected[j].text]]
            IN  IF rr.raised # "none"
                THEN Out(Finish(sv2, QueryResp("raised", rr.raised, "rerank", "", << >>, TRUE,
                                               <<"embed", "search", "rerank">>, Len(initial))),
                         dsk, coll, 0, "")
                ELSE Out([sv2 EXCEPT !.pc = "generate",
                                     !.req = [NoReq EXCEPT
                                                !.op = "query", !.query = query,
                                                !.top_k = top_k, !.initial = initial,
                                                !.reranked = rr.pairs, !.context = context,
                                                !.stages = <<"embed", "search", "rerank",
                                                             "generate">>]],
                         dsk, coll, 0, "")
    IN  IF NothingRetrieved(initial)
        THEN Out(Finish(sv1, QueryResp("success", "", "none", NoInformation, << >>, TRUE,
                                       <<"embed", "search">>, Len(initial))),
                 dsk, coll, 0, "")
        ELSE Let(Rerank(sv1.rr_loaded, query, docs, RerankK(top_k), fail), Go)

\* RAGService.query, lines 146-196: up to the await of the generation request
QueryCall(sv, query, top_k, fail, store_type, inst, dsk, coll) ==
    LET i   == EnsureInitialized(sv, fail, store_type, inst, dsk)
        qe  == EmbedQuery(i.svc.emb, query, fail)
        sv1 == [i.svc EXCEPT !.emb = qe.emb]
    IN  IF i.raised # "none"
        THEN Out(Finish(i.svc, QueryResp("raised", i.raised, "initialize", "", << >>, FALSE,
                                         << >>, 0)),
                 dsk, coll, 0, "")
        ELSE IF qe.raised # "none"
        THEN Out(Finish(sv1, QueryResp("raised", qe.raised, "embed", "", << >>, FALSE,
                                       <<"embed">>, 0)),
                 dsk, coll, 0, "")
        ELSE IF fail = "search"           \* the index search raised: nothing catches it
        THEN Out(Finish(sv1, QueryResp("raised", "search failed", "search", "", << >>, TRUE,
                                       <<"embed", "search">>, 0)),
                 dsk, coll, 0, "")
        ELSE Let(ToolSearch(sv1.tool, dsk, coll, qe.vector, top_k_retrieve).results,
                 LAMBDA initial : QueryRetrieved(sv1, query, top_k, fail, dsk, coll, initial))

\* mutant of QueryBody: the citations are built and returned although the
\* generation request failed
QueryBody_CitesAnyway(sv, fail, dsk, coll) ==
    Out(Finish(sv, QueryResp("success", "", IF fail = "generate" THEN "generate" ELSE "none",
                             IF fail = "generate" THEN "" ELSE "generated",
                             Sources(sv.req.initial, sv.req.reranked), TRUE,
                             sv.req.stages, Len(sv.req.initial))),
        dsk, coll, 0, "")

\* RAGService.query, lines 189-226: from the return of the generation request
QueryBody(sv, fail, dsk, coll) ==
    IF fail = "generate"
    THEN Out(Finish(sv, GenerationFailed(sv.req.stages, Len(sv.req.initial))),
             dsk, coll, 0, "")
    ELSE Out(Finish(sv, QueryResp("success", "", "none", "generated",
                                  Sources(sv.req.initial, sv.req.reranked), TRUE,
                                  sv.req.stages, Len(sv.req.initial))),
             dsk, coll, 0, "")


\* ==================================================================== state
VARIABLES
    vector_db_type,  \* settings.vector_db_type: "faiss" or "chroma"
    installed,       \* whether the backend's library can be imported
    disk,            \* the snapshot directory settings.vector_db_path
    chroma,          \* the persistent Chroma collection
    nextId,          \* the next uuid4() draw
    stored,          \* every id ever stored in an index (history)
    vst,             \* a VectorStoreTool handle used directly
    last,            \* the last call on vst: its arguments and its outcome
    ready,           \* history: a vst.initialize call has returned normally
    svc,             \* the RAGService instances
    nextDoc,         \* the next uuid4() draw for a doc_id
    ingested,        \* history: doc_ids whose ingest returned success since the last reset
    emt,             \* an EmbeddingTool used directly
    rrt,             \* a RerankerTool used directly: whether its model is loaded
    out              \* the last call on emt or rrt, or the last citation built

vars == <<vector_db_type, installed, disk, chroma, nextId, stored, vst, last, ready,
          svc, nextDoc, ingested, emt, rrt, out>>

svcVars == <<svc, nextDoc, ingested>>

modelVars == <<emt, rrt, out>>

Services == {"s1", "s2"}

NoCall ==
    [op |-> "none", raised |-> "none", batch |-> << >>, q |-> <<0, 0>>, top_k |-> 0,
     ids |-> << >>, results |-> << >>]

Call(op, raised, batch, q, top_k, ids, results) ==
    [op |-> op, raised |-> raised, batch |-> batch, q |-> q, top_k |-> top_k,
     ids |-> ids, results |-> results]

\* no call was made on emt or rrt and no citation was built
NoOut ==
    [op |-> "none", texts |-> << >>, query |-> Txt("", 0, 0), top_k |-> None,
     fail |-> "none", raised |-> "none", value |-> 0, metadata |-> << >>, chunks |-> << >>,
     vectors |-> << >>, vector |-> << >>, pairs |-> << >>,
     content |-> [text |-> Txt("", 0, 0), ellipsis |-> FALSE]]

\* EmbeddingTool.__init__ and RerankerTool.__init__: no model is loaded
InitModels ==
    /\ emt = NewEmbedder
    /\ rrt = FALSE
    /\ out = NoOut

\* settings and the storage the deployment starts with
InitEnv ==
    /\ vector_db_type \in {"faiss", "chroma"}
    /\ installed \in BOOLEAN
    /\ disk = EmptyDisk
    /\ chroma = << >>
    /\ nextId = 1
    /\ stored = {}

\* ------------------------------------------- direct calls on a handle (vst)
\* vst.initialize(dimension), with the embedder's dimension
VstInitialize ==
    LET r == ToolInitialize(vst, ModelDim, vector_db_type, installed, disk)
    IN  /\ vst' = r.tool
        /\ last' = Call("initialize", r.raised, << >>, <<0, 0>>, 0, << >>, << >>)
        /\ ready' = (ready \/ r.raised = "none")
        /\ UNCHANGED <<vector_db_type, installed, disk, chroma, nextId, stored, svcVars, modelVars>>

\* await vst.add(texts, embeddings, metadata)
VstAdd(batch, fault) ==
    LET n == Drawn(vst, batch)
        e == ToolAdd(vst, disk, chroma, batch, NewIds(nextId, n), fault)
    IN  /\ nextId + n - 1 <= MaxIds
        /\ vst' = [vst EXCEPT !.store = e.store]
        /\ disk' = e.disk
        /\ chroma' = e.coll
        /\ nextId' = nextId + n
        /\ stored' = stored \cup Range(e.store.ids) \cup {e.coll[i].id : i \in 1..Len(e.coll)}
        /\ last' = Call("add", e.raised, batch, <<0, 0>>, 0, e.ids, << >>)
        /\ UNCHANGED <<vector_db_type, installed, ready, svcVars, modelVars>>

\* await vst.search(query_embedding, top_k)
VstSearch(q, top_k) ==
    LET e == ToolSearch(vst, disk, chroma, q, top_k)
    IN  /\ last' = Call("search", e.raised, << >>, q, top_k, << >>, e.results)
        /\ UNCHANGED <<vector_db_type, installed, disk, chroma, nextId, stored, vst, ready, svcVars, modelVars>>

\* await vst.delete_all()
VstDeleteAll(fault) ==
    LET e == ToolDeleteAll(vst, disk, chroma, fault)
    IN  /\ vst' = [vst EXCEPT !.store = e.store]
        /\ disk' = e.disk
        /\ chroma' = e.coll
        /\ last' = Call("delete_all", e.raised, << >>, <<0, 0>>, 0, << >>, << >>)
        /\ UNCHANGED <<vector_db_type, installed, nextId, stored, ready, svcVars, modelVars>>

\* await vst.save()
VstSave(fault) ==
    LET e == ToolSave(vst, disk, chroma, fault)
    IN  /\ vst' = [vst EXCEPT !.store = e.store]
        /\ disk' = e.disk
        /\ chroma' = e.coll
        /\ last' = Call("save", e.raised, << >>, <<0, 0>>, 0, << >>, << >>)
        /\ UNCHANGED <<vector_db_type, installed, nextId, stored, ready, svcVars, modelVars>>

\* the places a call on this tool can hit a failing write: only the FAISS
\* store writes snapshot files (Chroma persists by itself)
Faults(tool) == IF tool.store.kind = "faiss" THEN SaveFaults ELSE {"none"}

Init ==
    /\ InitEnv
    /\ vst = NewTool
    /\ last = NoCall
    /\ ready = FALSE
    /\ svc = [s \in Services |-> NewService]
    /\ nextDoc = 1
    /\ ingested = {}
    /\ InitModels

NextTool ==
    \/ VstInitialize
    \/ \E batch \in Batches, fault \in Faults(vst) : VstAdd(batch, fault)
    \/ \E q \in QueryEmbeddings, top_k \in 1..MaxTopK : VstSearch(q, top_k)
    \/ \E fault \in Faults(vst) : VstDeleteAll(fault)
    \/ \E fault \in Faults(vst) : VstSave(fault)

SpecTool == Init /\ [][NextTool]_vars


\* ================================================== claims on the vector index
\* the number of records the index holds (index_size)
IndexSize == IF vst.store.kind = "faiss" THEN Len(vst.store.index.vecs) ELSE Len(chroma)

NonIncreasing(results) ==
    \A i \in 1..(Len(results) - 1) : results[i].score >= results[i + 1].score

Searched == last.op = "search" /\ last.raised = "none"

\* C1: for an index holding N records, search(q, top_k) returns exactly
\* min(top_k, N) results ordered by non-increasing score, on either backend.
C1_SearchReturnsMinTopK ==
    Searched =>
        /\ Len(last.results) = Min(last.top_k, IndexSize)
        /\ NonIncreasing(last.results)


\* C2: search on a never-populated index returns [], and a search that
\* follows delete_all returns [] whatever the index held before.
C2_SearchEmptyAfterReset ==
    /\ [](Searched /\ stored = {} => last.results = << >>)
    /\ [][(last.op = "delete_all" /\ last.raised # "not_initialized" /\ last'.op = "search")
            => last'.results = << >>]_vars

\* a populated index was reset and then searched
C2_Witness ==
    /\ Searched /\ stored # {}
    /\ IndexSize = 0
    /\ last.results = << >>

IsPrefix(a, b) == Len(a) <= Len(b) /\ \A i \in 1..Len(a) : a[i] = b[i]

Injective(ids) == \A i, j \in 1..Len(ids) : ids[i] = ids[j] => i = j

\* the (id, text, metadata) records of an index, in storage order
Records(store, coll) ==
    IF store.kind = "faiss"
    THEN [i \in 1..Len(store.ids) |->
            [id |-> store.ids[i], text |-> store.texts[i], meta |-> store.metadata[i]]]
    ELSE [i \in 1..Len(coll) |->
            [id |-> coll[i].id, text |-> coll[i].text, meta |-> coll[i].meta]]

\* C3: an add that returns gives one id per input text, each stored with its
\* text in input order, each distinct from the others and from every id ever
\* stored; add([]) returns [] and changes neither the index nor the snapshot.
C3_AddReturnsFreshIds ==
    [][(last'.op = "add" /\ last'.raised = "none") =>
         LET old == Records(vst.store, chroma)
             new == Records(vst'.store, chroma')
         IN  /\ Len(last'.ids) = Len(last'.batch)
             /\ Injective(last'.ids)
             /\ \A i \in 1..Len(last'.ids) : last'.ids[i] \notin stored
             /\ Len(new) = Len(old) + Len(last'.batch)
             /\ \A i \in 1..Len(last'.ids) :
                    /\ new[Len(old) + i].id = last'.ids[i]
                    /\ new[Len(old) + i].text = last'.batch[i].text
             /\ last'.batch = << >> => UNCHANGED <<vst, disk, chroma>>]_vars

\* an add of two texts returned two ids
C3_Witness ==
    /\ last.op = "add" /\ last.raised = "none"
    /\ Len(last.batch) = 2 /\ Len(last.ids) = 2

\* C4: add only appends: the records present before it keep their id, text,
\* metadata and position, and the new records follow them in input order.
C4_AddOnlyAppends ==
    [][(last'.op = "add" /\ last'.raised # "not_initialized") =>
         LET old == Records(vst.store, chroma)
             new == Records(vst'.store, chroma')
         IN  /\ IsPrefix(old, new)
             /\ IsPrefix(vst.store.index.vecs, vst'.store.index.vecs)
             /\ Len(new) = Len(old) + Len(last'.batch)
             /\ \A i \in 1..Len(last'.batch) :
                    new[Len(old) + i].text = last'.batch[i].text]_vars

\* an add onto an index that already held a record
C4_Witness ==
    /\ last.op = "add" /\ last.raised = "none"
    /\ Len(last.batch) = 1
    /\ Len(Records(vst.store, chroma)) = 2

\* C5: in every reachable state of a flat in-memory index the number of
\* stored vectors equals the length of the texts, metadata and ids tables.
C5_TablesAligned ==
    vst.store.kind = "faiss" =>
        /\ Len(vst.store.index.vecs) = Len(vst.store.texts)
        /\ Len(vst.store.texts) = Len(vst.store.metadata)
        /\ Len(vst.store.metadata) = Len(vst.store.ids)

\* C7: add, search and delete_all leave the dimension fixed at initialization
\* unchanged, and a delete_all that returns leaves an empty index of that
\* dimension in memory and in the persisted snapshot.
C7_ResetKeepsDimension ==
    /\ [][last'.op \in {"add", "search", "delete_all"} =>
            /\ vst'.dimension = vst.dimension
            /\ vst'.store.dimension = vst.store.dimension
            /\ vst'.store.index.d = vst.store.index.d]_vars
    /\ [](last.op = "delete_all" /\ last.raised = "none" =>
            /\ IndexSize = 0
            /\ Records(vst.store, chroma) = << >>
            /\ vst.store.kind = "faiss" =>
                 /\ vst.store.index = IndexFlatIP(vst.dimension)
                 /\ disk.index_file = [st |-> "ok", d |-> vst.dimension, vecs |-> << >>]
                 /\ disk.data_file = [st |-> "ok", texts |-> << >>, metadata |-> << >>,
                                      ids |-> << >>])

\* a populated flat index was reset and its empty snapshot written
C7_Witness ==
    /\ last.op = "delete_all" /\ last.raised = "none"
    /\ vst.store.kind = "faiss"
    /\ stored # {}
    /\ vst.store.index.d = ModelDim

VstOps == {"add", "search", "delete_all", "save"}

\* C8: before an initialize has returned normally, add, search, delete_all
\* and save fail with "not initialized" and change no state; afterwards none
\* of them fails with that error.
C8_NotInitializedError ==
    /\ [][(~ready /\ last'.op \in VstOps) =>
            /\ last'.raised = "not_initialized"
            /\ UNCHANGED <<vst, disk, chroma, nextId, stored>>]_vars
    /\ [][(ready /\ last'.op \in VstOps) => last'.raised # "not_initialized"]_vars

\* an add on a handle whose only initialize call failed
C8_Witness ==
    /\ ~ready
    /\ vst.dimension # 0
    /\ last.op = "add" /\ last.raised = "not_initialized"


\* ======================================================= calls on RAGService
\* the places where the environment of one call can fail
StoreFaults == IF vector_db_type = "faiss" THEN SaveFaults ELSE {"none"}

IngestFaults == {"none", "load_model", "extract", "embed"} \cup StoreFaults

QueryFaults == {"none", "load_model", "embed", "search", "load_reranker", "rerank"}

GenerateFaults == {"none", "generate"}

ResetFaults == {"none", "load_model"} \cup StoreFaults

\* request.top_k: the optional override of a query request, None or a count
TopKs == {None} \cup {Some(k) : k \in 0..MaxTopK}

\* the persisted index: what a store constructed now on the storage path holds
Persisted ==
    IF vector_db_type = "faiss"
    THEN IF disk.data_file.st = "ok" THEN disk.data_file.metadata ELSE << >>
    ELSE [i \in 1..Len(chroma) |-> chroma[i].meta]

\* the effects of one step of a call on service s
Effects(s, o) ==
    /\ svc' = [svc EXCEPT ![s] = o.svc]
    /\ disk' = o.disk
    /\ chroma' = o.coll
    /\ nextId' = nextId + o.drawn
    /\ stored' = stored \cup Range(o.svc.tool.store.ids) \cup Range(o.disk.data_file.ids)
                        \cup {o.coll[i].id : i \in 1..Len(o.coll)}
    /\ nextDoc' = IF o.svc.req.op = "ingest" \/ o.svc.resp.doc_id = DocId(nextDoc)
                  THEN nextDoc + 1 ELSE nextDoc
    /\ ingested' = IF o.svc.resp.op = "reset" /\ o.svc.resp.used_store /\ o.svc.pc = "idle"
                   THEN {}
                   ELSE IF o.done # "" THEN ingested \cup {o.done} ELSE ingested
    /\ UNCHANGED <<vector_db_type, installed, vst, last, ready, modelVars>>

\* a step of a call on service s that draws no more ids than the behaviour has
Apply(s, o) ==
    /\ IF o.drawn = 0 THEN TRUE ELSE nextId + o.drawn - 1 <= MaxIds
    /\ Effects(s, o)

\* await service.ingest_document(content, filename), up to its first suspension
SvcIngest(s, f, fail) ==
    /\ svc[s].pc = "idle"
    /\ nextDoc <= MaxDocs
    /\ Apply(s, IngestCall(svc[s], f, DocId(nextDoc), fail, vector_db_type, installed,
                           disk, chroma, nextId))

\* the caption request of an image ingest returns: the rest of ingest_document
SvcIngestResume(s, fail) ==
    /\ svc[s].pc = "extract"
    /\ Apply(s, IngestBody(svc[s], svc[s].req.file, svc[s].req.doc_id, fail,
                           disk, chroma, nextId))

\* await service.query(request), up to the generation request
SvcQuery(s, query, top_k, fail) ==
    /\ svc[s].pc = "idle"
    /\ Apply(s, QueryCall(svc[s], query, top_k, fail, vector_db_type, installed,
                          disk, chroma))

\* the generation request returns or fails: the rest of query
SvcQueryResume(s, fail) ==
    /\ svc[s].pc = "generate"
    /\ Apply(s, QueryBody(svc[s], fail, disk, chroma))

\* await service.reset_index()
SvcReset(s, fail) ==
    /\ svc[s].pc = "idle"
    /\ Apply(s, ResetCall(svc[s], fail, vector_db_type, installed, disk, chroma))

\* the long-lived service instance of this specification
Orch == "s1"

NextOrch ==
    \/ \E f \in Files, fail \in IngestFaults : SvcIngest(Orch, f, fail)
    \/ \E fail \in IngestFaults : SvcIngestResume(Orch, fail)
    \/ \E q \in Queries, k \in TopKs, fail \in QueryFaults : SvcQuery(Orch, q, k, fail)
    \/ \E fail \in GenerateFaults : SvcQueryResume(Orch, fail)
    \/ \E fail \in ResetFaults : SvcReset(Orch, fail)

SpecOrch == Init /\ [][NextOrch]_vars


\* ================================================================ routes/rag.py
\* the status code of the HTTP response a handler makes of the service's outcome
Http(resp) ==
    CASE resp.status = "success" -> 200
      [] resp.status = "error"   -> 422
      [] resp.status = "raised"  -> 500
      [] OTHER                   -> 0

\* a handler's step: when the service call has ended the response is sent and
\* the handler's service instance (a local of the handler) is gone
Routed(o) ==
    IF o.svc.pc = "idle"
    THEN [o EXCEPT !.svc = [NewService EXCEPT
                              !.resp = [o.svc.resp EXCEPT !.http = Http(o.svc.resp)]]]
    ELSE o

\* ingest_document handler, lines 35-40: the file type is refused before the
\* service is used
Refused(f) ==
    [NewService EXCEPT !.resp = [NoResp EXCEPT !.op = "ingest", !.status = "refused",
                                               !.message = "Unsupported file type",
                                               !.filename = f.filename, !.http = 400]]

\* the failures of a request's environment in the specification of the
\* routes: the models load and every write to the storage succeeds
RouteFaults == {"none", "extract"}

RouteQueryFaults == {"none", "rerank"}

\* POST /ingest: rag_service = RAGService(); ... await rag_service.ingest_document
RouteIngest(s, f, fail) ==
    /\ svc[s].pc = "idle"
    /\ nextDoc <= MaxDocs
    /\ IF f.type = "unknown"
       THEN Apply(s, Out(Refused(f), disk, chroma, 0, ""))
       ELSE Apply(s, Routed(IngestCall(NewService, f, DocId(nextDoc), fail, vector_db_type,
                                       installed, disk, chroma, nextId)))

\* POST /ingest of an image, from the return of the caption request
RouteIngestResume(s, fail) ==
    /\ svc[s].pc = "extract"
    /\ Apply(s, Routed(IngestBody(svc[s], svc[s].req.file, svc[s].req.doc_id, fail,
                                  disk, chroma, nextId)))

\* POST /query: rag_service = RAGService(); await rag_service.query(request)
RouteQuery(s, query, top_k, fail) ==
    /\ svc[s].pc = "idle"
    /\ Apply(s, Routed(QueryCall(NewService, query, top_k, fail, vector_db_type, installed,
                                 disk, chroma)))

\* POST /query, from the return of the generation request
RouteQueryResume(s, fail) ==
    /\ svc[s].pc = "generate"
    /\ Apply(s, Routed(QueryBody(svc[s], fail, disk, chroma)))

\* POST /reset: rag_service = RAGService(); await rag_service.reset_index()
RouteReset(s, fail) ==
    /\ svc[s].pc = "idle"
    /\ Apply(s, Routed(ResetCall(NewService, fail, vector_db_type, installed, disk, chroma)))

NextRoutes ==
    \/ \E s \in Services, f \in Files, fail \in RouteFaults : RouteIngest(s, f, fail)
    \/ \E s \in Services, fail \in RouteFaults : RouteIngestResume(s, fail)
    \/ \E s \in Services, q \in Queries, k \in TopKs, fail \in RouteQueryFaults :
          RouteQuery(s, q, k, fail)
    \/ \E s \in Services, fail \in GenerateFaults : RouteQueryResume(s, fail)
    \/ \E s \in Services : RouteReset(s, "none")

SpecRoutes == Init /\ [][NextRoutes]_vars


\* ================================== calls on the tools and citations built
storeVars == <<vector_db_type, installed, disk, chroma, nextId, stored, vst, last, ready>>

\* the texts handed to embed and embed_query
EmbedTexts == { Txt("a.txt", 0, 300), Txt("b.png", 0, 300) }

\* the documents handed to rerank (a.txt and c.txt score the same against q1)
RerankDocs == { Txt("a.txt", 0, 300), Txt("b.png", 0, 300), Txt("c.txt", 0, 500) }

\* the lists of documents handed to rerank: distinct documents, in every order
RerankLists ==
    {d \in SeqsUpTo(RerankDocs, MaxBatch) : \A i, j \in 1..Len(d) : d[i] = d[j] => i = j}

\* where the environment of a call on the embedding model may fail
EmbedFaults == {"none", "load_model", "load_model_once", "embed", "no_output"}

\* where the environment of a call on the reranker model may fail
RerankFaults == {"none", "load_reranker", "load_reranker_once", "rerank"}

\* top_k: int | None
RerankKs == {None} \cup {Some(k) : k \in -1..MaxTopK}

\* result["text"] of a citation: texts shorter than, as long as and longer than
\* the display limit, starting anywhere in their source
CitedTexts ==
    { Txt("e.txt", lo, lo + n) :
         lo \in {0, 100}, n \in {0, 1700} \cup ((500 - MaxOver)..(500 + MaxOver)) }

\* await emt.embed(texts)
EmtEmbed(texts, fail) ==
    LET r == Embed(emt, texts, fail)
    IN  /\ emt' = r.emb
        /\ out' = [NoOut EXCEPT !.op = "embed", !.texts = texts, !.fail = fail, !.raised = r.raised,
                                !.vectors = r.vectors]
        /\ UNCHANGED <<rrt, storeVars, svcVars>>

\* await emt.embed_query(text)
EmtEmbedQuery(text, fail) ==
    LET r == EmbedQuery(emt, text, fail)
    IN  /\ emt' = r.emb
        /\ out' = [NoOut EXCEPT !.op = "embed_query", !.texts = <<text>>, !.fail = fail,
                                !.raised = r.raised, !.vector = r.vector]
        /\ UNCHANGED <<rrt, storeVars, svcVars>>

\* emt.dimension
EmtDimension(fail) ==
    LET r == EmbDimension(emt, fail)
    IN  /\ emt' = r.emb
        /\ out' = [NoOut EXCEPT !.op = "dimension", !.fail = fail,
                                !.raised = IF r.raised THEN "Failed to load embedding model"
                                           ELSE "none",
                                !.value = IF r.raised THEN 0 ELSE r.value]
        /\ UNCHANGED <<rrt, storeVars, svcVars>>

\* await rrt.rerank(query, documents, top_k)
RrtRerank(query, documents, top_k, fail) ==
    LET r == Rerank(rrt, query, documents, top_k, fail)
    IN  /\ rrt' = r.loaded
        /\ out' = [NoOut EXCEPT !.op = "rerank", !.query = query, !.texts = documents,
                                !.top_k = top_k, !.fail = fail, !.raised = r.raised,
                                !.pairs = r.pairs]
        /\ UNCHANGED <<emt, storeVars, svcVars>>

\* the texts handed to split: empty, whitespace only, shorter and longer than
\* chunk_size without a separator, and paragraphs
SplitTexts ==
    { Txt("e.txt", 0, 0), Txt(Whitespace, 0, 3), Txt("p.txt", 0, 1200), Txt("p.txt", 0, 600) }
    \cup { Txt("e.txt", 0, n) : n \in {1, chunk_size, chunk_size + 1, 1200, 1700} }

\* the metadata handed to split: none, a document's, and one that holds a
\* chunk_index already
SplitMetas ==
    { << >>,
      [doc_id |-> MStr("doc1"), filename |-> MStr("e.txt"), doc_type |-> MStr("text")],
      [chunk_index |-> MInt(7)] }

\* splitter.split(text, metadata)
Chunk(text, metadata) ==
    /\ out' = [NoOut EXCEPT !.op = "split", !.texts = <<text>>, !.metadata = metadata,
                            !.chunks = Split(text, metadata)]
    /\ UNCHANGED <<emt, rrt, storeVars, svcVars>>

\* content=... of one Source
Cite(text) ==
    /\ out' = [NoOut EXCEPT !.op = "cite", !.texts = <<text>>, !.content = Truncate(text)]
    /\ UNCHANGED <<emt, rrt, storeVars, svcVars>>

NextModels ==
    \/ \E texts \in SeqsUpTo(EmbedTexts, MaxBatch), fail \in EmbedFaults : EmtEmbed(texts, fail)
    \/ \E text \in EmbedTexts, fail \in EmbedFaults : EmtEmbedQuery(text, fail)
    \/ \E fail \in EmbedFaults : EmtDimension(fail)
    \/ \E q \in Queries, documents \in RerankLists, top_k \in RerankKs,
          fail \in RerankFaults : RrtRerank(q, documents, top_k, fail)
    \/ \E text \in CitedTexts : Cite(text)
    \/ \E text \in SplitTexts, metadata \in SplitMetas : Chunk(text, metadata)

\* the tools read nothing of the vector store: one deployment stands for all
InitOnTools == Init /\ vector_db_type = "faiss" /\ installed

SpecModels == InitOnTools /\ [][NextModels]_vars

\* ============================================== queries on a populated index
\* the upload with this filename
FileNamed(name) == CHOOSE f \in Files : f.filename = name

\* the documents earlier requests have ingested, in the order of the requests
LongFile == [filename |-> "d.txt", type |-> "text", text |-> Txt("d.txt", 0, 1700)]

Seeds ==
    { << >>,
      <<FileNamed("a.txt")>>,
      <<FileNamed("c.txt")>>,
      <<LongFile>>,
      <<LongFile, FileNamed("a.txt")>> }

\* the storage after these documents were ingested one after the other, each
\* by a request with a service of its own, with nothing failing
RECURSIVE IngestedAll(_, _)
IngestedAll(files, store_type) ==
    IF files = << >>
    THEN [disk |-> EmptyDisk, coll |-> << >>, next |-> 1, ndoc |-> 1, done |-> {}]
    ELSE LET p == IngestedAll(SubSeq(files, 1, Len(files) - 1), store_type)
             o == IngestCall(NewService, files[Len(files)], DocId(p.ndoc), "none",
                             store_type, TRUE, p.disk, p.coll, p.next)
         IN  [disk |-> o.disk, coll |-> o.coll, next |-> p.next + o.drawn,
              ndoc |-> p.ndoc + 1, done |-> p.done \cup {o.done}]

InitQuery ==
    /\ vector_db_type \in {"faiss", "chroma"}
    /\ installed = TRUE
    /\ \E seed \in Seeds :
          LET p == IngestedAll(seed, vector_db_type)
          IN  /\ disk = p.disk
              /\ chroma = p.coll
              /\ nextId = p.next
              /\ stored = 1..(p.next - 1)
              /\ nextDoc = p.ndoc
              /\ ingested = p.done
    /\ vst = NewTool
    /\ last = NoCall
    /\ ready = FALSE
    /\ svc = [s \in Services |-> NewService]
    /\ InitModels

\* text uploads of 1200 characters: one without a separator, one of paragraphs
LongUploads ==
    { [filename |-> "t.txt", type |-> "text", text |-> Txt("t.txt", 0, 1200)],
      [filename |-> "p.txt", type |-> "text", text |-> Txt("p.txt", 0, 1200)] }

\* await service.ingest_document(content, filename) of such an upload, as the
\* first ingest on the storage
SvcIngestLong(s, f, fail) ==
    /\ svc[s].pc = "idle"
    /\ nextId = 1
    /\ nextDoc <= MaxDocs
    /\ Effects(s, IngestCall(svc[s], f, DocId(nextDoc), fail, vector_db_type, installed,
                             disk, chroma, nextId))

NextQuery ==
    \/ \E q \in Queries, k \in TopKs, fail \in QueryFaults : SvcQuery(Orch, q, k, fail)
    \/ \E fail \in GenerateFaults : SvcQueryResume(Orch, fail)
    \/ SvcReset(Orch, "none")
    \/ \E f \in LongUploads, fail \in IngestFaults : SvcIngestLong(Orch, f, fail)

SpecQuery == InitQuery /\ [][NextQuery]_vars

\* ================================================== claims on the orchestrator
HasDoc(records, d) == \E i \in 1..Len(records) : records[i].doc_id = MStr(d)

\* C6: every document whose ingest request returned success since the last
\* reset has its records in the persisted index (where every later query's
\* service loads them from), whatever the interleaving of the requests.
C6_ConcurrentIngestsKeepWrites ==
    \A d \in ingested : HasDoc(Persisted, d)

\* a call on the service instance begins in this step
Begins(s) == svc[s].pc = "idle" /\ svc'[s] # svc[s]

\* C9: a service instance goes from Uninitialized to Initialized and never
\* back; its vector index is initialized at most once; a call issued while
\* Uninitialized either initializes the index with the embedder's dimension or
\* fails in the initialization without having used the index; only an
\* Initialized service uses the index.
C9_OneWayInitialization ==
    /\ [](/\ svc[Orch].inits <= 1
          /\ svc[Orch].initialized <=> svc[Orch].inits = 1
          /\ svc[Orch].initialized =>
                /\ ~NotInitialized(svc[Orch].tool)
                /\ svc[Orch].emb.loaded
                /\ svc[Orch].tool.dimension = svc[Orch].emb.dimension
          /\ svc[Orch].resp.used_store => svc[Orch].initialized)
    /\ [][svc[Orch].initialized => svc'[Orch].initialized]_vars
    /\ [][(~svc[Orch].initialized /\ Begins(Orch)) =>
             \/ svc'[Orch].initialized
             \/ /\ svc'[Orch].resp.failed = "initialize"
                /\ ~svc'[Orch].resp.used_store
                /\ UNCHANGED <<disk, chroma>>]_vars

\* a query that used the index of a service an earlier ingest initialized
C9_Witness ==
    /\ svc[Orch].initialized /\ svc[Orch].inits = 1
    /\ svc[Orch].resp.op = "query" /\ svc[Orch].resp.used_store
    /\ svc[Orch].resp.sources # << >>
    /\ ingested # {}

\* C10 as stated: ingest never raises; whichever step fails, it returns a
\* response with status "error", chunk_count 0 and a message carrying the error.
C10_IngestNeverRaises ==
    svc[Orch].resp.op = "ingest" =>
        /\ svc[Orch].resp.status \in {"success", "error"}
        /\ svc[Orch].resp.failed # "none" =>
              /\ svc[Orch].resp.status = "error"
              /\ svc[Orch].resp.chunk_count = 0
              /\ svc[Orch].resp.message # ""

\* C10 amended: ingest raises exactly when the initialization fails; when the
\* text extraction, the chunking, the embedding or the index add fails it
\* returns a response with status "error", chunk_count 0 and a message
\* carrying the error; when nothing fails it returns status "success".
C10_IngestRaisesOnlyOnInit ==
    svc[Orch].resp.op = "ingest" =>
        /\ svc[Orch].resp.status \in {"success", "error", "raised"}
        /\ svc[Orch].resp.status = "raised" <=> svc[Orch].resp.failed = "initialize"
        /\ svc[Orch].resp.status = "success" <=> svc[Orch].resp.failed = "none"
        /\ svc[Orch].resp.failed \in {"extract", "chunk", "embed", "add"} =>
              /\ svc[Orch].resp.status = "error"
              /\ svc[Orch].resp.chunk_count = 0
              /\ svc[Orch].resp.message # ""

\* an ingest whose index add failed (the snapshot could not be written)
C10_Witness ==
    /\ svc[Orch].resp.op = "ingest"
    /\ svc[Orch].resp.failed = "add"
    /\ svc[Orch].resp.status = "error"
    /\ svc[Orch].resp.chunk_count = 0


\* an ingest call on service s ends in this step
IngestEnds(s) ==
    /\ svc'[s] # svc[s]
    /\ svc'[s].pc = "idle"
    /\ svc'[s].resp.op = "ingest"

\* the records the index of a service's store holds in memory
Held(sv) == IF sv.tool.store.kind = "faiss" THEN sv.tool.store.metadata ELSE << >>

\* C11: an ingest whose embedding failed has not called add, and an ingest
\* that returns status "error" leaves the index as it was: the storage is
\* unchanged and none of the document's chunks is in the index.
C11_NoPartialCommit ==
    [][(IngestEnds(Orch) /\ svc'[Orch].resp.status = "error") =>
          /\ svc'[Orch].resp.failed \in {"extract", "chunk", "embed"} =>
                ~svc'[Orch].resp.used_store
          /\ UNCHANGED <<disk, chroma>>
          /\ ~HasDoc(Held(svc'[Orch]), svc'[Orch].resp.doc_id)
          /\ ~HasDoc(Persisted', svc'[Orch].resp.doc_id)]_vars


\* the number of records of document d among these records
CountDoc(records, d) == Cardinality({i \in 1..Len(records) : records[i].doc_id = MStr(d)})

\* the records in the index a service works on
Indexed(sv, coll) ==
    IF sv.tool.store.kind = "faiss" THEN sv.tool.store.metadata
    ELSE [i \in 1..Len(coll) |-> coll[i].meta]

\* C12: an ingest of a document that yields no chunk (and whose service could
\* be initialized) returns status "error" with chunk_count 0; an ingest that
\* returns status "success" reports a chunk_count of at least 1, which is the
\* number of records it added to the index.
C12_ZeroChunksIsError ==
    [][IngestEnds(Orch) =>
          LET r == svc'[Orch].resp IN
          /\ (IsBlank(FileNamed(r.filename).text) /\ r.failed # "initialize") =>
                (r.status = "error" /\ r.chunk_count = 0)
          /\ r.status = "success" =>
                /\ r.chunk_count >= 1
                /\ r.chunk_count = nextId' - nextId
                /\ r.chunk_count = CountDoc(Indexed(svc'[Orch], chroma'), r.doc_id)
                /\ r.chunk_count = CountDoc(Persisted', r.doc_id)]_vars

\* a document of whitespace only was ingested on an initialized service
C12_Witness ==
    /\ svc[Orch].initialized
    /\ svc[Orch].resp.op = "ingest"
    /\ IsBlank(FileNamed(svc[Orch].resp.filename).text)
    /\ svc[Orch].resp.status = "error"
    /\ svc[Orch].resp.chunk_count = 0


\* C13: a query whose retrieval returned no candidate returns the canned
\* answer with no sources, and has called neither the reranker nor the
\* generation backend; no generation request is in flight without candidates.
C13_EmptyRetrievalShortCircuits ==
    /\ (svc[Orch].resp.op = "query" /\ svc[Orch].resp.used_store
            /\ svc[Orch].resp.failed # "search"
            /\ svc[Orch].resp.retrieved = 0) =>
          /\ svc[Orch].resp.status = "success"
          /\ svc[Orch].resp.answer = NoInformation
          /\ svc[Orch].resp.sources = << >>
          /\ svc[Orch].resp.stages = <<"embed", "search">>
    /\ svc[Orch].pc = "generate" => svc[Orch].req.initial # << >>

\* a query that retrieved nothing, after an ingest call was made
C13_Witness ==
    /\ svc[Orch].resp.op = "query" /\ svc[Orch].resp.used_store
    /\ svc[Orch].resp.retrieved = 0
    /\ svc[Orch].resp.answer = NoInformation
    /\ nextDoc > 1


\* C14: when the generation request of a query fails, the query raises the
\* domain error that wraps the failure, returns no answer and no sources, and
\* leaves the index (in memory and in the storage) as it was; a query that
\* returns an answer with sources is one whose generation succeeded.
C14_GenerationFailureRaises ==
    /\ [][(svc[Orch].pc = "generate" /\ svc'[Orch].pc = "idle"
              /\ svc'[Orch].resp.failed = "generate") =>
            /\ svc'[Orch].resp.status = "raised"
            /\ svc'[Orch].resp.message = "Failed to generate answer"
            /\ svc'[Orch].resp.answer = ""
            /\ svc'[Orch].resp.sources = << >>
            /\ svc'[Orch].tool = svc[Orch].tool
            /\ UNCHANGED <<disk, chroma>>]_vars
    /\ [](svc[Orch].resp.status = "success" => svc[Orch].resp.failed = "none")

\* a query that retrieved candidates and whose generation request failed
C14_Witness ==
    /\ svc[Orch].resp.op = "query"
    /\ svc[Orch].resp.failed = "generate"
    /\ svc[Orch].resp.status = "raised"
    /\ svc[Orch].resp.retrieved > 0


\* the records (id, text, metadata) of the index a service works on
IndexRecords(sv, coll) ==
    IF sv.tool.store.kind = "faiss"
    THEN [i \in 1..Len(sv.tool.store.ids) |->
            [id |-> sv.tool.store.ids[i], text |-> sv.tool.store.texts[i],
             meta |-> sv.tool.store.metadata[i]]]
    ELSE [i \in 1..Len(coll) |->
            [id |-> coll[i].id, text |-> coll[i].text, meta |-> coll[i].meta]]

\* C15: the sources of a query response are the reranked candidates in final
\* rank order: source i has rank i, the score of the i-th reranked pair, and
\* the id, doc_id, filename and text of the search result at that pair's
\* original index, which is a record of the index scored against the query;
\* the ranks are 1..len(sources) and the scores do not increase with the rank.
C15_SourcesAreRerankedCandidates ==
    [][(svc[Orch].pc = "generate" /\ svc'[Orch].pc = "idle"
           /\ svc'[Orch].resp.status = "success") =>
         LET req     == svc[Orch].req
             sources == svc'[Orch].resp.sources
             records == IndexRecords(svc[Orch], chroma)
         IN  /\ Len(sources) = Len(req.reranked)
             /\ \A j \in 1..Len(sources) :
                   LET pair   == req.reranked[j]
                       result == req.initial[pair.idx + 1]
                   IN  /\ sources[j].index = j
                       /\ sources[j].score = pair.score
                       /\ sources[j].score = CrossScore(req.query, result.text)
                       /\ sources[j].chunk_id = result.id
                       /\ sources[j].doc_id = MetaGet(result.metadata, "doc_id")
                       /\ sources[j].filename = MetaGet(result.metadata, "filename")
                       /\ sources[j].content = Truncate(result.text)
                       /\ \E i \in 1..Len(records) :
                             /\ records[i].id = sources[j].chunk_id
                             /\ records[i].text = result.text
                             /\ records[i].meta.doc_id = sources[j].doc_id
                             /\ records[i].meta.filename = sources[j].filename
             /\ \A j \in 1..(Len(sources) - 1) : sources[j].score >= sources[j + 1].score
             /\ \A i, j \in 1..Len(sources) :
                   sources[i].chunk_id = sources[j].chunk_id => i = j]_vars

\* a query answered with three sources whose rank order is not the order in
\* which the search returned them
C15_Witness ==
    /\ svc[Orch].resp.op = "query"
    /\ svc[Orch].resp.status = "success"
    /\ Len(svc[Orch].resp.sources) = 3
    /\ \E q \in Queries :
          LET initial == ToolSearch(svc[Orch].tool, disk, chroma,
                                    EmbedQuery(svc[Orch].emb, q, "none").vector,
                                    top_k_retrieve).results
          IN  \E j \in 1..3 : svc[Orch].resp.sources[j].chunk_id # initial[j].id


\* ======================================================= claims on the tools
\* the number of characters of a citation's content
ContentLen(c) == TextLen(c.text) + (IF c.ellipsis THEN 3 ELSE 0)

\* C16: the content of a citation is the chunk text unchanged when the text
\* has at most 500 characters, and otherwise the first 500 characters of the
\* text followed by an ellipsis; it never has more than 503 characters.
C16_CitationContentBounded ==
    out.op = "cite" =>
       LET text == out.texts[1] IN
       /\ TextLen(text) <= 500 => (out.content.text = text /\ ~out.content.ellipsis)
       /\ TextLen(text) > 500 =>
             /\ out.content.text.src = text.src
             /\ out.content.text.lo = text.lo
             /\ TextLen(out.content.text) = 500
             /\ out.content.ellipsis
       /\ ContentLen(out.content) <= 503

\* a citation of a text of 501 characters was built
C16_Witness ==
    /\ out.op = "cite"
    /\ TextLen(out.texts[1]) = 501
    /\ out.content.ellipsis
    /\ ContentLen(out.content) = 503


\* rerank returned normally
RerankReturned == out.op = "rerank" /\ out.raised = "none"

\* the pairs returned are at most min(k, len(documents)), their scores do not
\* increase, and their indices are positions of documents, each at most once
RerankWithin ==
    LET n == Len(out.texts)
        k == IF out.top_k.some THEN out.top_k.v ELSE top_k_rerank
    IN  /\ Len(out.pairs) <= Min(k, n)
        /\ \A j \in 1..(Len(out.pairs) - 1) : out.pairs[j].score >= out.pairs[j + 1].score
        /\ \A j \in 1..Len(out.pairs) : out.pairs[j].idx \in 0..(n - 1)
        /\ \A i, j \in 1..Len(out.pairs) : out.pairs[i].idx = out.pairs[j].idx => i = j

C18_SourcesWithinTopK ==
    [][(svc[Orch].pc = "generate" /\ svc'[Orch].pc = "idle"
           /\ svc'[Orch].resp.status = "success") =>
         LET top_k   == svc[Orch].req.top_k
             sources == svc'[Orch].resp.sources
         IN  /\ top_k.some => Len(sources) <= top_k.v
             /\ ~top_k.some => Len(sources) <= top_k_rerank]_vars

\* C18, for the requests whose top_k is not 0: the number of sources is
\* min(top_k, candidates), with top_k_rerank for top_k when none is supplied
C18_SourcesWithinNonZeroTopK ==
    [][(svc[Orch].pc = "generate" /\ svc'[Orch].pc = "idle"
           /\ svc'[Orch].resp.status = "success"
           /\ svc[Orch].req.top_k # Some(0)) =>
         LET top_k   == svc[Orch].req.top_k
             sources == svc'[Orch].resp.sources
             k       == IF top_k.some THEN top_k.v ELSE top_k_rerank
         IN  Len(sources) = Min(k, Len(svc[Orch].req.initial))]_vars


\* ================================================= claims on the two models
\* C19: embed([]) and rerank(query, [], k) return an empty sequence without
\* loading or invoking their model: they return normally and empty wherever
\* the model's environment would fail, whether or not the model was loaded
\* before, and leave the tool's loaded state as it was.
C19_EmptyInputTouchesNoModel ==
    /\ []((out.op \in {"embed", "rerank"} /\ out.texts = << >>) =>
             /\ out.raised = "none"
             /\ out.vectors = << >>
             /\ out.pairs = << >>)
    /\ [][/\ (out'.op = "embed" /\ out'.texts = << >>) => emt' = emt
          /\ (out'.op = "rerank" /\ out'.texts = << >>) => rrt' = rrt]_vars

\* rerank of no documents returned normally where loading the reranker would
\* fail, on a tool that has not loaded its model
C19_Witness ==
    /\ out.op = "rerank"
    /\ out.texts = << >>
    /\ out.fail = "load_reranker"
    /\ out.raised = "none"
    /\ ~rrt


\* C20: embed_query(text) returns the first element of embed([text]) and
\* raises when that batch produces no output: whenever it returns, it returns
\* the embedding of the text, never an empty one.
C20_EmbedQueryNeverEmpty ==
    (out.op = "embed_query" /\ out.raised = "none") =>
        /\ out.vector # << >>
        /\ out.vector = Encode(out.texts[1])

\* C20, for the calls whose batch produced an output
C20_EmbedQueryFirstOfBatch ==
    (out.op = "embed_query" /\ out.raised = "none" /\ out.fail # "no_output") =>
        out.vector = Encode(out.texts[1])


\* the call just made on emt needed the embedding model
NeedsEmbedder(o) == o.op \in {"embed_query", "dimension"} \/ (o.op = "embed" /\ o.texts # << >>)

\* the call just made on rrt needed the reranker model
NeedsReranker(o) == o.op = "rerank" /\ o.texts # << >>

\* C21: model loading is lazy and memoized: no model is loaded before the
\* first call that needs it; once a model is loaded no later call loads it
\* again (the tool is left as it is, and no later call meets a load failure);
\* a failed load raises the tool's own error and leaves the model unloaded,
\* also where a second attempt would have succeeded; and the dimension
\* reported after a successful load is the same in every later call.
C21_LazyMemoizedLoading ==
    /\ [](out.op = "none" => (~emt.loaded /\ ~rrt))
    /\ [][/\ (~emt.loaded /\ emt'.loaded) => NeedsEmbedder(out')
          /\ (~rrt /\ rrt') => NeedsReranker(out')
          /\ emt.loaded =>
                /\ emt' = emt
                /\ out'.raised # "Failed to load embedding model"
                /\ out'.op = "dimension" => out'.value = emt.dimension
          /\ rrt => (rrt' /\ out'.raised # "Failed to load reranker model")
          /\ (~emt.loaded /\ NeedsEmbedder(out') /\ LoadFails(out'.fail)) =>
                (out'.raised = "Failed to load embedding model" /\ emt' = emt)
          /\ (~rrt /\ NeedsReranker(out')
                 /\ out'.fail \in {"load_reranker", "load_reranker_once"}) =>
                (out'.raised = "Failed to load reranker model" /\ ~rrt')]_vars

\* the embedding model is loaded and a call that needed it was made where
\* loading would fail: the call returned without a load error
C21_Witness ==
    /\ emt.loaded
    /\ out.op = "embed_query"
    /\ out.fail = "load_model"
    /\ out.raised = "none"
    /\ out.vector # << >>


\* ================================================== claims on the splitter
\* C22: split returns an empty sequence for an empty or whitespace-only text;
\* for every other text the chunks returned carry the chunk_index values
\* 0, 1, ..., in order and without gaps, and each carries as chunk_total the
\* number of chunks that this call returned.
C22_ChunkIndicesContiguous ==
    out.op = "split" =>
       LET text == out.texts[1] IN
       /\ (TextLen(text) = 0 \/ text.src = Whitespace) => out.chunks = << >>
       /\ \A i \in 1..Len(out.chunks) :
             /\ out.chunks[i].metadata.chunk_index = MInt(i - 1)
             /\ out.chunks[i].metadata.chunk_total = MInt(Len(out.chunks))

\* a text of four paragraphs was split into four chunks, with a metadata that
\* held a chunk_index before
C22_Witness ==
    /\ out.op = "split"
    /\ out.texts[1] = Txt("p.txt", 0, 1200)
    /\ "chunk_index" \in DOMAIN out.metadata
    /\ Len(out.chunks) = 4


\* ================================================= claims on whole documents
\* the upload that an ingest response answers
Uploaded(r) == CHOOSE f \in LongUploads : f.filename = r.filename

\* the records of a document in the index, in the order they were added
DocRecords(records, d) == SelectSeq(records, LAMBDA m : m.doc_id = MStr(d))

\* the ingest of a document added n records, with chunk_index 0..n-1 and
\* chunk_total n on each, and reports chunk_count n
IngestedInChunks(n) ==
    LET r    == svc'[Orch].resp
        recs == DocRecords(Indexed(svc'[Orch], chroma'), r.doc_id)
    IN  /\ r.chunk_count = n
        /\ Len(recs) = n
        /\ \A i \in 1..Len(recs) :
              recs[i].chunk_index = MInt(i - 1) /\ recs[i].chunk_total = MInt(n)

\* a successful ingest of a text of 1200 characters ends in this step
LongIngestEnds ==
    /\ IngestEnds(Orch)
    /\ svc'[Orch].resp.status = "success"
    /\ svc'[Orch].resp.filename \in {f.filename : f \in LongUploads}

\* C23 as stated: ingesting a 1200-character text with chunk_size 500 and
\* chunk_overlap 100 yields exactly 3 chunks, with chunk_index 0, 1, 2 and
\* chunk_total 3 on each, and the response reports chunk_count 3.
C23_LongTextThreeChunks == [][LongIngestEnds => IngestedInChunks(3)]_vars

\* C23, amended: a 1200-character text that holds none of the separators
\* yields exactly 3 chunks with chunk_index 0, 1, 2 and chunk_total 3 and
\* chunk_count 3; a 1200-character text of four paragraphs of which no two
\* fit in one chunk yields 4 chunks, with chunk_index 0..3, chunk_total 4 and
\* chunk_count 4.
C23_SeparatorFreeTextThreeChunks ==
    [][LongIngestEnds =>
          IF Cuts(Uploaded(svc'[Orch].resp).text) = {}
          THEN IngestedInChunks(3)
          ELSE IngestedInChunks(4)]_vars

\* the 1200-character text without separators was ingested in three chunks
C23_Witness ==
    /\ svc[Orch].resp.op = "ingest"
    /\ svc[Orch].resp.status = "success"
    /\ svc[Orch].resp.filename = "t.txt"
    /\ svc[Orch].resp.chunk_count = 3
    /\ nextId = 4


\* a query that was issued right after the only ingest call made so far
\* returns: that ingest succeeded with a single chunk on an empty index
AfterSoleIngest ==
    /\ svc[Orch].pc = "generate" /\ svc'[Orch].pc = "idle"
    /\ svc'[Orch].resp.status = "success"
    /\ svc[Orch].resp.op = "ingest" /\ svc[Orch].resp.status = "success"
    /\ svc[Orch].resp.chunk_count = 1
    /\ nextDoc = 2 /\ nextId = 2

\* C24: every source of a query response carries the doc_id and filename of
\* the ingest that created its chunk: the doc_id is one drawn by an ingest call
\* and the filename that of an upload; after ingesting one document whose text
\* forms a single chunk and then querying, the response has exactly one
\* source, with the doc_id that the ingest returned and the ingested filename.
C24_SourceCarriesIngestIdentity ==
    [][/\ (svc[Orch].pc = "generate" /\ svc'[Orch].pc = "idle") =>
             \A j \in 1..Len(svc'[Orch].resp.sources) :
                /\ svc'[Orch].resp.sources[j].doc_id
                      \in {MStr(DocId(n)) : n \in 1..(nextDoc - 1)}
                /\ svc'[Orch].resp.sources[j].filename
                      \in {MStr(f.filename) : f \in Files}
       /\ AfterSoleIngest =>
             /\ Len(svc'[Orch].resp.sources) = 1
             /\ svc'[Orch].resp.sources[1].doc_id = MStr(svc[Orch].resp.doc_id)
             /\ svc'[Orch].resp.sources[1].filename = MStr(svc[Orch].resp.filename)]_vars

\* one document of a single chunk was ingested and the query after it was
\* answered with one source
C24_Witness ==
    /\ svc[Orch].resp.op = "query"
    /\ svc[Orch].resp.status = "success"
    /\ Len(svc[Orch].resp.sources) = 1
    /\ svc[Orch].resp.sources[1].doc_id = MStr(DocId(1))
    /\ nextDoc = 2 /\ nextId = 2
    /\ ingested = {DocId(1)}


\* ================================================ claims on the persistence
\* a fresh handle initialized now on the storage, with the same dimension
Reloaded(tool, dsk) == ToolInitialize(NewTool, tool.dimension, vector_db_type, installed, dsk).tool

\* the ids a search returns, in order
SearchIds(tool, dsk, coll, q, top_k) ==
    LET results == ToolSearch(tool, dsk, coll, q, top_k).results
    IN  [i \in 1..Len(results) |-> results[i].id]

\* C25: after an add of N records to a persistent index has returned, a fresh
\* index instance created on the same storage location holds the same records
\* as the instance that added them, and every search against it returns the
\* same ids, in the same order, as the same search before the reload.
C25_PersistenceRoundTrip ==
    [][(last'.op = "add" /\ last'.raised = "none" /\ last'.batch # << >>) =>
          LET fresh == Reloaded(vst', disk')
          IN  /\ Records(fresh.store, chroma') = Records(vst'.store, chroma')
              /\ \A q \in QueryEmbeddings, top_k \in 1..MaxTopK :
                    SearchIds(fresh, disk', chroma', q, top_k)
                       = SearchIds(vst', disk', chroma', q, top_k)]_vars

\* two records were added to a flat index and its snapshot holds both
C25_Witness ==
    /\ last.op = "add" /\ last.raised = "none"
    /\ vst.store.kind = "faiss"
    /\ Len(vst.store.ids) = 2
    /\ disk.data_file.st = "ok"
    /\ Len(disk.data_file.ids) = 2
    /\ SearchIds(Reloaded(vst, disk), disk, chroma, <<1, 0>>, 2) # << >>

\* the snapshot directory exists and one of its two files is missing or unreadable
SnapshotBroken(dsk) == dsk.dir /\ (dsk.index_file.st # "ok" \/ dsk.data_file.st # "ok")

\* C26: a construction of the flat index on a snapshot of which either file is
\* missing or unreadable succeeds, and the resulting index has zero vectors and
\* empty texts, metadata and ids tables.
C26_FailedLoadLeavesEmpty ==
    [][(last'.op = "initialize" /\ vector_db_type = "faiss" /\ installed
           /\ SnapshotBroken(disk)) =>
          /\ last'.raised = "none"
          /\ vst'.store.kind = "faiss"
          /\ vst'.store.index.vecs = << >>
          /\ vst'.store.texts = << >>
          /\ vst'.store.metadata = << >>
          /\ vst'.store.ids = << >>]_vars

\* the Python types the collection accepts as a metadata value
Scalars == {"str", "int", "float", "bool"}

\* C27: in the persistent collection backend every metadata value handed to
\* the collection by an add is a string, number or boolean: a value of one of
\* these types is stored unchanged, a value of any other type is stored as its
\* string representation, and each record keeps the keys its caller gave it.
C27_CollectionMetadataScalar ==
    [][(last'.op = "add" /\ last'.raised = "none" /\ vst.store.kind = "chroma") =>
          /\ Len(chroma') = Len(chroma) + Len(last'.batch)
          /\ \A i \in 1..Len(last'.batch) :
                LET given  == last'.batch[i].meta
                    handed == chroma'[Len(chroma) + i].meta
                IN  /\ DOMAIN handed = DOMAIN given
                    /\ \A k \in DOMAIN given :
                          /\ handed[k].t \in Scalars
                          /\ given[k].t \in Scalars => handed[k] = given[k]
                          /\ given[k].t \notin Scalars =>
                                handed[k] = MStr("['" \o given[k].s \o "']")]_vars

\* a record with a list-valued key and string keys was added to the collection
C27_Witness ==
    /\ last.op = "add" /\ last.raised = "none"
    /\ vst.store.kind = "chroma"
    /\ \E i \in 1..Len(last.batch) :
          /\ last.batch[i].meta.doc_id.t = "str"
          /\ "tags" \in DOMAIN last.batch[i].meta
          /\ last.batch[i].meta.tags.t = "list"
          /\ chroma[Len(chroma) - Len(last.batch) + i].meta.tags.t = "str"
    /\ \E i \in 1..Len(last.batch) : "chunk_index" \in DOMAIN last.batch[i].meta


\* ============================================ claims on the failure handling
\* C28: when the backend of the vector index cannot be constructed (its
\* library is missing), every call on the service that reaches the
\* initialization ends by raising the vector-store error to its caller, never
\* having used the index nor changed the storage; the service stays
\* Uninitialized and its index handle without a store, so each later call
\* attempts the initialization again and raises again.
C28_InitializationFailureSurfaces ==
    /\ [][(~installed /\ Begins(Orch)) =>
            /\ svc'[Orch].pc = "idle"
            /\ svc'[Orch].resp.status = "raised"
            /\ svc'[Orch].resp.failed = "initialize"
            /\ svc'[Orch].emb.loaded <=>
                  svc'[Orch].resp.message = "Vector store initialization failed"
            /\ ~svc'[Orch].emb.loaded <=>
                  svc'[Orch].resp.message = "Failed to load embedding model"
            /\ ~svc'[Orch].resp.used_store
            /\ UNCHANGED <<disk, chroma>>]_vars
    /\ [](~installed =>
            /\ ~svc[Orch].initialized
            /\ svc[Orch].inits = 0
            /\ NotInitialized(svc[Orch].tool)
            /\ svc[Orch].resp.status \in {"none", "raised"})

\* a reset on a deployment without the backend's library: the embedder gave
\* its dimension, the construction of the index failed and the call raised
C28_Witness ==
    /\ ~installed
    /\ svc[Orch].resp.op = "reset"
    /\ svc[Orch].resp.status = "raised"
    /\ svc[Orch].resp.message = "Vector store initialization failed"
    /\ svc[Orch].emb.loaded
    /\ svc[Orch].tool.dimension = ModelDim
    /\ ~svc[Orch].initialized

\* the stages of a query, in the order of the code
StageOrder == <<"embed", "search", "rerank", "generate">>

\* a query call on service s ends in this step
QueryEnds(s) ==
    /\ svc'[s] # svc[s]
    /\ svc'[s].pc = "idle"
    /\ svc'[s].resp.op = "query"

\* C29: the stages a query has run are an initial part of the order embed
\* query, index search, rerank, generate, each run once; the citations are
\* built only after all four succeeded; a stage that fails is the last one
\* run and the query then raises, with no answer and no sources; stages that
\* did not run left their tool untouched.
C29_StagesInOrderNoRetry ==
    [][QueryEnds(Orch) =>
         LET before == svc[Orch]
             after  == svc'[Orch]
             resp   == after.resp
             ran    == resp.stages
         IN  /\ IsPrefix(ran, StageOrder)
             /\ resp.failed # "none" =>
                   /\ resp.status = "raised"
                   /\ resp.answer = "" /\ resp.sources = << >>
                   /\ resp.failed = "initialize" => ran = << >>
                   /\ resp.failed # "initialize" =>
                         ran # << >> /\ ran[Len(ran)] = resp.failed
             /\ resp.failed = "none" =>
                   /\ resp.status = "success"
                   /\ \/ ran = StageOrder /\ resp.retrieved > 0
                      \/ ran = <<"embed", "search">> /\ resp.retrieved = 0
                            /\ resp.sources = << >>
             /\ resp.sources # << >> => ran = StageOrder /\ resp.failed = "none"
             /\ (Len(ran) >= 2 \/ (ran = <<"embed">> /\ resp.failed = "none")) =>
                   after.emb.loaded
             /\ resp.used_store <=> Len(ran) >= 2
             /\ Len(ran) < 3 => after.rr_loaded = before.rr_loaded
             /\ (Len(ran) > 3 \/ (Len(ran) = 3 /\ resp.failed = "none")) => after.rr_loaded
             /\ Len(ran) = 4 <=> before.pc = "generate"
             /\ before.pc = "generate" =>
                   /\ before.req.stages = StageOrder
                   /\ after.emb = before.emb
                   /\ after.rr_loaded = before.rr_loaded
                   /\ after.tool = before.tool]_vars

\* a query failed in its rerank stage after the embedding and the search had
\* succeeded and candidates were retrieved: no generation request was made
C29_Witness ==
    /\ svc[Orch].resp.op = "query"
    /\ svc[Orch].resp.failed = "rerank"
    /\ svc[Orch].resp.status = "raised"
    /\ svc[Orch].resp.stages = <<"embed", "search", "rerank">>
    /\ svc[Orch].resp.retrieved > 0
    /\ svc[Orch].pc = "idle"

\* C30: when a query returns its sources, the context that was passed to the
\* generation backend holds one block per source and no other: the block
\* labelled "Document N:" carries the full text of the index record whose id
\* the source of rank N cites, for every N from 1 to the number of sources.
C30_ContextAlignedWithSources ==
    [][(svc[Orch].pc = "generate" /\ svc'[Orch].pc = "idle"
           /\ svc'[Orch].resp.status = "success") =>
         LET context == svc[Orch].req.context
             sources == svc'[Orch].resp.sources
             records == IndexRecords(svc[Orch], chroma)
         IN  /\ Len(context) = Len(sources)
             /\ sources # << >>
             /\ \A N \in 1..Len(sources) :
                   /\ context[N].document = N
                   /\ sources[N].index = N
                   /\ \E i \in 1..Len(records) : records[i].id = sources[N].chunk_id
                   /\ \A i \in 1..Len(records) :
                         records[i].id = sources[N].chunk_id =>
                            /\ records[i].text = context[N].text
                            /\ sources[N].content = Truncate(context[N].text)]_vars

\* a query answered with two sources citing chunks of different texts
C30_Witness ==
    /\ svc[Orch].resp.op = "query"
    /\ svc[Orch].resp.status = "success"
    /\ Len(svc[Orch].resp.sources) = 2
    /\ svc[Orch].resp.sources[1].chunk_id # svc[Orch].resp.sources[2].chunk_id
    /\ svc[Orch].resp.sources[1].content # svc[Orch].resp.sources[2].content

====
